---- MODULE Spec2Model ----
(***************************************************************************)
(* Model of the ensemble aggregator of the neonatal cardiac-arrest risk    *)
(* predictor (src/src/models/ensemble.py, class EnsemblePredictor) with    *)
(* the model registry of src/src/models/architectures.py.                  *)
(*                                                                         *)
(* Numbers: a probability is an integer number of tenths (a softmax row    *)
(* sums to ONE = 10 tenths), a validation AUC is an integer number of      *)
(* tenths, and an aggregated probability is the exact rational             *)
(* num[class] / den.  A prediction call is modelled on one input row; the  *)
(* rows of a matrix are aggregated independently of each other.            *)
(***************************************************************************)
EXTENDS Integers, Sequences, FiniteSets, TLC

VARIABLES
    seed,             \* the process-wide random seed (set_global_seed)
    built,            \* models built in this process since the seed was set
    trained_models,   \* EnsemblePredictor.trained_models
    model_names,      \* EnsemblePredictor.model_names
    individual_aucs,  \* EnsemblePredictor.individual_aucs
    disk_models,      \* the ensemble directory: member directory name -> saved model
    disk_aucs,        \* the ensemble directory: individual_aucs.npy (NoFile when absent)
    saved,            \* the roster the latest save_all wrote, and whether train_all
                      \* was the call before it (history)
    removed,          \* member artifacts removed from the directory so far
    procs,            \* processes started so far
    trains,           \* train_all calls made so far
    ret,              \* the latest call: its name, arguments and what it returned
    csv,              \* the input file: one raw row per record
    np_random,        \* the state of numpy's global generator (np.random)
    scaler,           \* DataPipeline.scaler: the statistics it was fitted with
    held,             \* what the caller holds of the pipeline's return values
    prev_split,       \* the stratified_split call before the latest one (history)
    dret,             \* the latest pipeline call: its name, arguments and result
    counted,          \* a record count and the partition sizes computed for it
    fit,              \* one model.fit call with the training callbacks: its epochs
    run,              \* one run of main: its mode, its position, what it holds
    hpo               \* one hyperparameter search: its backend and its trials

predictor_vars == <<seed, built, trained_models, model_names, individual_aucs,
                    disk_models, disk_aucs, saved, removed, procs, trains, ret>>

pipeline_vars == <<csv, np_random, scaler, held, prev_split, dret, counted>>

training_vars == <<fit, run, hpo>>

vars == <<seed, built, trained_models, model_names, individual_aucs,
          disk_models, disk_aucs, saved, removed, procs, trains, ret,
          csv, np_random, scaler, held, prev_split, dret, counted,
          fit, run, hpo>>

-----------------------------------------------------------------------------
(* Bounds of the model *)

NumSeeds == 2

MaxTrainCalls == 1

MaxRemoved == 1

MaxProcesses == 2

\* train_all calls in the runs that retrain a predictor (SpecRetrain)
MaxRetrainCalls == 2

\* records in an input file (SpecData)
MaxRecords == 20

\* records in a file given by its record count (SpecSizes)
MaxCount == 1000

\* the largest epoch limit of a fit (SpecFit)
MaxEpochs == 22

\* the largest number of trials of a hyperparameter search (SpecHpo)
MaxTrials == 5

Seeds == 0 .. (NumSeeds - 1)

-----------------------------------------------------------------------------
(* Configuration and registry *)

NUM_CLASSES == 3

TABULAR_MODEL_BUILDERS ==
    << "build_shallow_wide", "build_deep_narrow", "build_pyramid_bn",
       "build_diamond_selu", "build_residual_block", "build_swish_layernorm",
       "build_mixed_activation", "build_heavy_regularization",
       "build_attention_net", "build_very_deep" >>

ALL_MODEL_NAMES ==
    << "ShallowWide", "DeepNarrow", "PyramidBN", "DiamondSELU",
       "ResidualBlock", "SwishLayerNorm", "MixedActivation",
       "HeavyRegularization", "AttentionNet", "VeryDeep",
       "EmbeddingNet", "BERTFusion" >>

\* position of the two special builders after the tabular ones
EMBEDDING_MODEL_BUILDER == Len(TABULAR_MODEL_BUILDERS) + 1

BERT_FUSION_MODEL_BUILDER == Len(TABULAR_MODEL_BUILDERS) + 2

\* the input contract each architecture declares
InputKind(arch) ==
    IF arch = EMBEDDING_MODEL_BUILDER THEN "embedding"
    ELSE IF arch = BERT_FUSION_MODEL_BUILDER THEN "fusion"
    ELSE "tabular"

NoFile == "NoFile"

-----------------------------------------------------------------------------
(* Helpers *)

Min(a, b) == IF a < b THEN a ELSE b

RECURSIVE SumSeq(_)
SumSeq(s) == IF s = <<>> THEN 0 ELSE Head(s) + SumSeq(Tail(s))

\* Python str.replace(old, ""): every occurrence of old is removed, scanning
\* from the left
RECURSIVE Replace(_, _)
Replace(s, old) ==
    IF Len(s) < Len(old) THEN s
    ELSE IF SubSeq(s, 1, Len(old)) = old
         THEN Replace(SubSeq(s, Len(old) + 1, Len(s)), old)
         ELSE SubSeq(s, 1, 1) \o Replace(SubSeq(s, 2, Len(s)), old)

\* the softmax outputs a member can produce, in tenths
Dists == << <<6, 3, 1>>, <<2, 5, 3>>, <<1, 1, 8>>, <<3, 3, 4>> >>

ONE == SumSeq(Dists[1])

\* A trained model is the architecture it was built from and the random
\* state it was trained under: [arch, seed, pos], pos being the number of
\* models built before it in the process.  Training is deterministic given
\* these (set_global_seed), so the model's predictions and its validation
\* score are functions of the record.  The functions below stand for what
\* gradient descent computes: under seed 0 every member reaches the same
\* validation score, under the other seeds the scores differ from member to
\* member; the predictions differ from member to member under every seed.

\* model.predict on the call's input row
Probs(m) == Dists[((m.arch + 2 * m.pos + m.seed) % Len(Dists)) + 1]

\* roc_auc_score of the model's predictions on the validation partition
ValAuc(m) == 7 + ((m.seed * (m.arch + m.pos)) % 3)

Fit(arch, sd, pos) == [arch |-> arch, seed |-> sd, pos |-> pos]

-----------------------------------------------------------------------------
(* train_all *)

\* name = builder.__name__.replace("build_", "") of each tabular builder
TabularNames ==
    [i \in 1 .. Len(TABULAR_MODEL_BUILDERS) |->
        Replace(TABULAR_MODEL_BUILDERS[i], "build_")]

\* the members one train_all call appends, in order, as records
\* [model, name, auc]
TabularMembers(sd, pos) ==
    [i \in 1 .. Len(TABULAR_MODEL_BUILDERS) |->
        LET model == Fit(i, sd, pos + i - 1)
        IN  [model |-> model,
             name  |-> TabularNames[i],
             auc   |-> ValAuc(model)]]

\* EmbeddingNet trained as soon as one of the two raw matrices is supplied
EmbeddingMember_either(sd, pos, X_train_raw, X_val_raw) ==
    IF X_train_raw \/ X_val_raw
    THEN LET emb_model == Fit(EMBEDDING_MODEL_BUILDER, sd, pos)
         IN  << [model |-> emb_model, name |-> "EmbeddingNet",
                 auc |-> ValAuc(emb_model)] >>
    ELSE <<>>

EmbeddingMember(sd, pos, X_train_raw, X_val_raw) ==
    IF X_train_raw /\ X_val_raw
    THEN LET emb_model == Fit(EMBEDDING_MODEL_BUILDER, sd, pos)
         IN  << [model |-> emb_model, name |-> "EmbeddingNet",
                 auc |-> ValAuc(emb_model)] >>
    ELSE <<>>

FusionMember(sd, pos, bert_train, bert_val) ==
    IF bert_train /\ bert_val
    THEN LET fusion_model == Fit(BERT_FUSION_MODEL_BUILDER, sd, pos)
         IN  << [model |-> fusion_model, name |-> "BERTFusion",
                 auc |-> ValAuc(fusion_model)] >>
    ELSE <<>>

\* BERTFusion built and trained before the other members
TrainedMembers_fusion_first(sd, pos, X_train_raw, X_val_raw, bert_train, bert_val) ==
    LET fus == FusionMember(sd, pos, bert_train, bert_val)
        tab == TabularMembers(sd, pos + Len(fus))
        emb == EmbeddingMember(sd, pos + Len(fus) + Len(tab), X_train_raw, X_val_raw)
    IN  tab \o emb \o fus

\* BERTFusion appended before EmbeddingNet
TrainedMembers_swapped(sd, pos, X_train_raw, X_val_raw, bert_train, bert_val) ==
    LET tab == TabularMembers(sd, pos)
        fus == FusionMember(sd, pos + Len(tab), bert_train, bert_val)
        emb == EmbeddingMember(sd, pos + Len(tab) + Len(fus), X_train_raw, X_val_raw)
    IN  tab \o fus \o emb

TrainedMembers(sd, pos, X_train_raw, X_val_raw, bert_train, bert_val) ==
    LET tab == TabularMembers(sd, pos)
        emb == EmbeddingMember(sd, pos + Len(tab), X_train_raw, X_val_raw)
        fus == FusionMember(sd, pos + Len(tab) + Len(emb), bert_train, bert_val)
    IN  tab \o emb \o fus

train_all(X_train_raw, X_val_raw, bert_train, bert_val) ==
    /\ trains' = trains + 1
    /\ LET new == TrainedMembers(seed, built, X_train_raw, X_val_raw,
                                 bert_train, bert_val)
       IN  /\ trained_models' = trained_models \o [k \in 1 .. Len(new) |-> new[k].model]
           /\ model_names' = model_names \o [k \in 1 .. Len(new) |-> new[k].name]
           /\ individual_aucs' = individual_aucs \o [k \in 1 .. Len(new) |-> new[k].auc]
           /\ built' = built + Len(new)
           /\ ret' = [op |-> "train_all", status |-> "ok",
                      X_train_raw |-> X_train_raw, X_val_raw |-> X_val_raw,
                      bert_train |-> bert_train, bert_val |-> bert_val,
                      fresh |-> (trained_models = <<>> /\ model_names = <<>>
                                 /\ individual_aucs = <<>>),
                      pos |-> built]
    /\ UNCHANGED <<pipeline_vars, training_vars, seed, disk_models, disk_aucs, saved, removed, procs>>

-----------------------------------------------------------------------------
(* _collect_predictions and the aggregation rules *)

\* a member whose input is absent is still invoked, on a zero-filled matrix
Route_zero_fill(name, X_raw, bert_embeddings) ==
    IF name = "EmbeddingNet"
    THEN (IF X_raw THEN "embedding" ELSE "zeros")
    ELSE IF name = "BERTFusion"
         THEN (IF bert_embeddings THEN "fusion" ELSE "zeros")
         ELSE "tabular"

\* the input a member is handed, decided from the member's name
Route(name, X_raw, bert_embeddings) ==
    IF name = "EmbeddingNet"
    THEN (IF X_raw THEN "embedding" ELSE "skip")
    ELSE IF name = "BERTFusion"
         THEN (IF bert_embeddings THEN "fusion" ELSE "skip")
         ELSE "tabular"

\* the input a member is handed decided from its position in the roster:
\* the registry name of that position stands for the member's own name
collect_predictions_by_position(models, names, X_raw, bert_embeddings) ==
    LET n == Min(Len(models), Len(names))
        visited == [i \in 1 .. n |->
                      [pos   |-> i,
                       model |-> models[i],
                       name  |-> names[i],
                       kind  |-> Route(ALL_MODEL_NAMES[Min(i, Len(ALL_MODEL_NAMES))],
                                       X_raw, bert_embeddings),
                       probs |-> Probs(models[i])]]
    IN  SelectSeq(visited, LAMBDA e : e.kind # "skip")

\* the predictions collected from zip(trained_models, model_names), each
\* with the roster position, the model and the name it came from
collect_predictions(models, names, X_raw, bert_embeddings) ==
    LET n == Min(Len(models), Len(names))
        visited == [i \in 1 .. n |->
                      [pos   |-> i,
                       model |-> models[i],
                       name  |-> names[i],
                       kind  |-> Route(names[i], X_raw, bert_embeddings),
                       probs |-> Probs(models[i])]]
    IN  SelectSeq(visited, LAMBDA e : e.kind # "skip")

\* np.mean(all_probs, axis=0): per class the sum over the collected
\* predictions over their number; the mean of nothing is nan
mean(all_probs) ==
    IF all_probs = <<>>
    THEN [status |-> "nan", num |-> <<>>, den |-> 0]
    ELSE [status |-> "ok",
          num |-> [c \in 1 .. NUM_CLASSES |->
                     SumSeq([k \in 1 .. Len(all_probs) |-> all_probs[k].probs[c]])],
          den |-> Len(all_probs)]

\* weights = individual_aucs[: len(all_probs)]
weights_of(aucs, all_probs) == SubSeq(aucs, 1, Min(Len(aucs), Len(all_probs)))

\* average without the division by the sum of the weights: the weighted sum
\* is divided by the number of members
average_by_count(all_probs, weights) ==
    IF Len(weights) # Len(all_probs)
    THEN [status |-> "ValueError", num |-> <<>>, den |-> 0]
    ELSE IF all_probs = <<>>
    THEN [status |-> "ZeroDivisionError", num |-> <<>>, den |-> 0]
    ELSE [status |-> "ok",
          num |-> [c \in 1 .. NUM_CLASSES |->
                     SumSeq([k \in 1 .. Len(all_probs) |->
                                weights[k] * all_probs[k].probs[c]])],
          den |-> Len(all_probs)]

\* weights / weights.sum() followed by np.average(all_probs, axis=0,
\* weights=weights): per class the weighted sum over the sum of the weights
average(all_probs, weights) ==
    IF Len(weights) # Len(all_probs)
    THEN [status |-> "ValueError", num |-> <<>>, den |-> 0]
    ELSE IF all_probs = <<>>
    THEN [status |-> "ZeroDivisionError", num |-> <<>>, den |-> 0]
    ELSE IF SumSeq(weights) = 0
    THEN [status |-> "nan", num |-> <<>>, den |-> 0]
    ELSE [status |-> "ok",
          num |-> [c \in 1 .. NUM_CLASSES |->
                     SumSeq([k \in 1 .. Len(all_probs) |->
                                weights[k] * all_probs[k].probs[c]])],
          den |-> SumSeq(weights)]

soft_vote(models, names, X_raw, bert_embeddings) ==
    mean(collect_predictions(models, names, X_raw, bert_embeddings))

weighted_vote(models, names, aucs, X_raw, bert_embeddings) ==
    LET all_probs == collect_predictions(models, names, X_raw, bert_embeddings)
    IN  average(all_probs, weights_of(aucs, all_probs))

predict_ensemble(X_raw, bert_embeddings) ==
    LET all_probs == collect_predictions(trained_models, model_names,
                                         X_raw, bert_embeddings)
        value == mean(all_probs)
    IN  /\ ret' = [op |-> "predict_ensemble",
                   X_raw |-> X_raw, bert_embeddings |-> bert_embeddings,
                   all_probs |-> all_probs,
                   value |-> value,
                   status |-> value.status]
        /\ UNCHANGED <<pipeline_vars, training_vars, seed, built, trained_models, model_names, individual_aucs,
                       disk_models, disk_aucs, saved, removed, procs, trains>>

\* the truncated weights are stored back as the predictor's scores
predict_weighted_ensemble_trims_scores(X_raw, bert_embeddings) ==
    LET all_probs == collect_predictions(trained_models, model_names,
                                         X_raw, bert_embeddings)
        weights == weights_of(individual_aucs, all_probs)
        value == average(all_probs, weights)
    IN  /\ ret' = [op |-> "predict_weighted_ensemble",
                   X_raw |-> X_raw, bert_embeddings |-> bert_embeddings,
                   all_probs |-> all_probs,
                   weights |-> weights,
                   value |-> value,
                   status |-> value.status]
        /\ individual_aucs' = weights
        /\ UNCHANGED <<pipeline_vars, training_vars, seed, built, trained_models, model_names,
                       disk_models, disk_aucs, saved, removed, procs, trains>>

predict_weighted_ensemble(X_raw, bert_embeddings) ==
    LET all_probs == collect_predictions(trained_models, model_names,
                                         X_raw, bert_embeddings)
        weights == weights_of(individual_aucs, all_probs)
        value == average(all_probs, weights)
    IN  /\ ret' = [op |-> "predict_weighted_ensemble",
                   X_raw |-> X_raw, bert_embeddings |-> bert_embeddings,
                   all_probs |-> all_probs,
                   weights |-> weights,
                   value |-> value,
                   status |-> value.status]
        /\ UNCHANGED <<pipeline_vars, training_vars, seed, built, trained_models, model_names, individual_aucs,
                       disk_models, disk_aucs, saved, removed, procs, trains>>

\* roc_auc_score of an aggregate or of one member's predictions on the
\* partition: the score is kept as the predictions it was computed from
\* (scored), and scoring nan raises
Keys(entries) == {entries[k].key : k \in 1 .. Len(entries)}

LastWith(entries, key) ==
    entries[CHOOSE k \in 1 .. Len(entries) :
                /\ entries[k].key = key
                /\ \A j \in (k + 1) .. Len(entries) : entries[j].key # key]

evaluate_auc(X_raw, bert_embeddings, weighted) ==
    LET all_probs == collect_predictions(trained_models, model_names,
                                         X_raw, bert_embeddings)
        avg == mean(all_probs)
        w   == average(all_probs, weights_of(individual_aucs, all_probs))
        use_w == weighted /\ individual_aucs # <<>>
        pairs == [i \in 1 .. Min(Len(model_names), Len(all_probs)) |->
                    [key |-> model_names[i] \o "_auc", scored |-> all_probs[i]]]
        entries == << [key |-> "ensemble_auc", scored |-> avg] >>
                   \o (IF use_w
                       THEN << [key |-> "weighted_ensemble_auc", scored |-> w] >>
                       ELSE <<>>)
                   \o pairs
        status == IF avg.status # "ok" THEN "ValueError"
                  ELSE IF use_w /\ w.status \in {"ValueError", "ZeroDivisionError"}
                       THEN w.status
                       ELSE IF use_w /\ w.status # "ok" THEN "ValueError"
                       ELSE "ok"
    IN  /\ ret' = [op |-> "evaluate_auc",
                   X_raw |-> X_raw, bert_embeddings |-> bert_embeddings,
                   weighted |-> weighted,
                   all_probs |-> all_probs,
                   status |-> status,
                   value |-> IF status = "ok"
                             THEN [key \in Keys(entries) |-> LastWith(entries, key).scored]
                             ELSE << >>]
        /\ UNCHANGED <<pipeline_vars, training_vars, seed, built, trained_models, model_names, individual_aucs,
                       disk_models, disk_aucs, saved, removed, procs, trains>>

-----------------------------------------------------------------------------
(* save_all and load_all *)

\* the directory after model.save for each zip(trained_models, model_names):
\* a later member of the same name overwrites the earlier one
Written(models, names) ==
    LET n == Min(Len(models), Len(names))
    IN  [name \in {names[i] : i \in 1 .. n} |->
            models[CHOOSE i \in 1 .. n :
                      /\ names[i] = name
                      /\ \A j \in (i + 1) .. n : names[j] # name]]

save_all ==
    LET written == Written(trained_models, model_names)
    IN  /\ disk_models' = [name \in (DOMAIN disk_models) \cup (DOMAIN written) |->
                              IF name \in DOMAIN written THEN written[name]
                              ELSE disk_models[name]]
        /\ disk_aucs' = individual_aucs
        /\ saved' = [names |-> model_names, aucs |-> individual_aucs,
                     models |-> trained_models,
                     after_train |-> (ret.op = "train_all")]
        /\ ret' = [op |-> "save_all", status |-> "ok"]
        /\ UNCHANGED <<pipeline_vars, training_vars, seed, built, trained_models, model_names, individual_aucs,
                       removed, procs, trains>>

\* the names of ALL_MODEL_NAMES whose path exists, in that order
Present(files) == SelectSeq(ALL_MODEL_NAMES, LAMBDA name : name \in DOMAIN files)

\* load_all without the reset of the two lists: the loaded members are
\* appended to the roster the predictor already holds
load_all_keeps_roster ==
    LET present == Present(disk_models)
    IN  /\ trained_models' = trained_models
                               \o [k \in 1 .. Len(present) |-> disk_models[present[k]]]
        /\ model_names' = model_names \o present
        /\ individual_aucs' = IF disk_aucs # NoFile THEN disk_aucs
                              ELSE individual_aucs
        /\ ret' = [op |-> "load_all", status |-> "ok",
                   fresh |-> (trained_models = <<>> /\ model_names = <<>>
                              /\ individual_aucs = <<>>)]
        /\ UNCHANGED <<pipeline_vars, training_vars, seed, built, disk_models, disk_aucs, saved, removed,
                       procs, trains>>

load_all ==
    LET present == Present(disk_models)
    IN  /\ trained_models' = [k \in 1 .. Len(present) |-> disk_models[present[k]]]
        /\ model_names' = present
        /\ individual_aucs' = IF disk_aucs # NoFile THEN disk_aucs
                              ELSE individual_aucs
        /\ ret' = [op |-> "load_all", status |-> "ok",
                   fresh |-> (trained_models = <<>> /\ model_names = <<>>
                              /\ individual_aucs = <<>>)]
        /\ UNCHANGED <<pipeline_vars, training_vars, seed, built, disk_models, disk_aucs, saved, removed,
                       procs, trains>>

\* the environment: a member's artifact directory goes missing
RemoveArtifact(name) ==
    /\ removed < MaxRemoved
    /\ name \in DOMAIN disk_models
    /\ \E k \in 1 .. Len(ALL_MODEL_NAMES) : ALL_MODEL_NAMES[k] = name
    /\ disk_models' = [n \in (DOMAIN disk_models) \ {name} |-> disk_models[n]]
    /\ removed' = removed + 1
    /\ UNCHANGED <<pipeline_vars, training_vars, seed, built, trained_models, model_names, individual_aucs,
                   disk_aucs, saved, procs, trains, ret>>

-----------------------------------------------------------------------------
(* The data pipeline: configuration *)

FEATURE_COLUMNS ==
    << "BirthWeight", "FamilyHistory", "PretermBirth", "HeartRate",
       "BreathingDifficulty", "SkinTinge", "Responsiveness", "Movement",
       "DeliveryType", "MothersBPHistory" >>

TARGET_COLUMN == "CardiacArrestChance"

CLASS_NAMES == << "Low", "Medium", "High" >>

CATEGORY_MAPS ==
    [BirthWeight |-> ("WeightTooLow" :> 3 @@ "LowWeight" :> 2 @@ "NormalWeight" :> 1),
     FamilyHistory |-> ("AboveTwoCases" :> 3 @@ "ZeroToTwoCases" :> 2 @@ "NoCases" :> 1),
     PretermBirth |-> ("4orMoreWeeksEarlier" :> 3 @@ "2To4weeksEarlier" :> 2
                       @@ "NotaPreTerm" :> 1),
     HeartRate |-> ("RapidHeartRate" :> 3 @@ "HighHeartRate" :> 2
                    @@ "NormalHeartRate" :> 1),
     BreathingDifficulty |-> ("HighBreathingDifficulty" :> 3
                              @@ "BreathingDifficulty" :> 2
                              @@ "NoBreathingDifficulty" :> 1),
     SkinTinge |-> ("Bluish" :> 3 @@ "LightBluish" :> 2 @@ "NotBluish" :> 1),
     Responsiveness |-> ("UnResponsive" :> 3 @@ "SemiResponsive" :> 2
                         @@ "Responsive" :> 1),
     Movement |-> ("Diminished" :> 3 @@ "Decreased" :> 2 @@ "NormalMovement" :> 1),
     DeliveryType |-> ("C_Section" :> 3 @@ "DifficultDelivery" :> 2
                       @@ "NormalDelivery" :> 1),
     MothersBPHistory |-> ("VeryHighBP" :> 3 @@ "HighBP" :> 2 @@ "BPInRange" :> 1)]

TARGET_MAP == ("High" :> 2 @@ "Medium" :> 1 @@ "Low" :> 0)

\* fractions are kept in hundredths
DEFAULT_TEST_SIZE == 15

DEFAULT_VAL_SIZE == 15

DEFAULT_SEED == 42

\* the missing value (float nan) that Series.map leaves for a key the
\* mapping does not hold; np.unique sorts it after every number
NaN == 99

Columns == {FEATURE_COLUMNS[c] : c \in 1 .. Len(FEATURE_COLUMNS)} \cup {TARGET_COLUMN}

-----------------------------------------------------------------------------
(* The input files of the model *)

\* the category string a mapping encodes as code
NameOf(mapping, code) == CHOOSE name \in DOMAIN mapping : mapping[name] = code

Shapes == {"balanced", "two_classes", "rare_class", "unmapped_feature",
           "unmapped_target"}

\* the target string of row i in a file of the given shape
RawTarget(i, shape) ==
    CASE shape = "two_classes" -> (IF i % 2 = 0 THEN "High" ELSE "Low")
      [] shape = "rare_class" ->
            (IF i = 1 THEN "High" ELSE IF i % 2 = 0 THEN "Medium" ELSE "Low")
      [] shape = "unmapped_target" /\ i \in {2, 7} -> "Unknown"
      [] OTHER -> CLASS_NAMES[((i - 1) % Len(CLASS_NAMES)) + 1]

\* the string of feature column c in row i
RawFeature(i, c, shape) ==
    IF shape = "unmapped_feature" /\ i = 2 /\ c = 1
    THEN "weighttoolow"
    ELSE NameOf(CATEGORY_MAPS[FEATURE_COLUMNS[c]], ((i + c + (i \div 3)) % 3) + 1)

ColumnIndex(col) == CHOOSE c \in 1 .. Len(FEATURE_COLUMNS) : FEATURE_COLUMNS[c] = col

RawRow(i, shape) ==
    [col \in Columns |->
        IF col = TARGET_COLUMN THEN RawTarget(i, shape)
        ELSE RawFeature(i, ColumnIndex(col), shape)]

RawFile(n, shape) == [i \in 1 .. n |-> RawRow(i, shape)]

-----------------------------------------------------------------------------
(* load_and_encode *)

\* Series.map(mapping) on one cell, a key the mapping lacks filled with a
\* default code
MapCell_default(mapping, value) ==
    IF value \in DOMAIN mapping THEN mapping[value] ELSE 1

\* Series.map(mapping) on one cell
MapCell(mapping, value) ==
    IF value \in DOMAIN mapping THEN mapping[value] ELSE NaN

MappingOf(col) == IF col = TARGET_COLUMN THEN TARGET_MAP ELSE CATEGORY_MAPS[col]

Encode(df_raw) ==
    [i \in 1 .. Len(df_raw) |->
        [col \in Columns |-> MapCell(MappingOf(col), df_raw[i][col])]]

NoSplit ==
    [status |-> "none", test_size |-> 0, val_size |-> 0, seed |-> 0,
     train |-> <<>>, val |-> <<>>, test |-> <<>>]

NoMatrices ==
    [status |-> "none", X_train_raw |-> <<>>, X_val_raw |-> <<>>, X_test_raw |-> <<>>,
     X_train |-> <<>>, X_val |-> <<>>, X_test |-> <<>>,
     y_train |-> <<>>, y_val |-> <<>>, y_test |-> <<>>]

NoFrames == [df_raw |-> <<>>, df_encoded |-> <<>>, split |-> NoSplit,
             matrices |-> NoMatrices]

load_and_encode ==
    /\ held' = [held EXCEPT !.df_raw = csv, !.df_encoded = Encode(csv)]
    /\ dret' = [op |-> "load_and_encode", status |-> "ok"]
    /\ UNCHANGED <<predictor_vars, training_vars, csv, np_random, scaler, prev_split, counted>>

-----------------------------------------------------------------------------
(* stratified_split: sklearn's train_test_split(stratify=y, random_state)  *)
(* as called at the two places of the method                               *)

\* A size handed to train_test_split is a double.  It is kept as the
\* fraction num/den and the amount, in units of 1/(den * 2^55), by which the
\* double lies above that fraction.  0.15 and 0.2 lie so close to 15/100
\* and 20/100 that no product with a record count of the model leaves the
\* exact ceiling; 0.15 / (1.0 - 0.15) = 0.17647058823529413 lies
\* 35/(85 * 2^55) above 15/85; 0.2 / 0.8 and 0.5 / 0.5 are exact.
SizeOf(fraction) == [num |-> fraction, den |-> 100, above |-> 0]

\* the validation fraction handed to the second split as it is
relative_val_size_absolute(test_size, val_size) ==
    [num |-> val_size, den |-> 100, above |-> 0]

\* relative_val_size = val_size / (1.0 - test_size)
relative_val_size(test_size, val_size) ==
    [num |-> val_size, den |-> 100 - test_size,
     above |-> IF test_size = 15 /\ val_size = 15 THEN 35 ELSE 0]

RECURSIVE Pow2Floor(_)
Pow2Floor(q) == IF q < 2 THEN 1 ELSE 2 * Pow2Floor(q \div 2)

\* ceil(size * n_samples): when the exact product is a whole number q the
\* double product is q, or the next double above q when the excess
\* n * above / (den * 2^55) is more than half the spacing of doubles at q
CeilTimes(size, n) ==
    LET p == size.num * n
        q == p \div size.den
    IN  IF p % size.den # 0 THEN q + 1
        ELSE IF q > 0 /\ n * size.above > 4 * size.den * Pow2Floor(q) THEN q + 1
        ELSE q

\* RandomState(seed): a generator is the state it is in
check_random_state(sd) == sd

\* rng.permutation(s); every use of a generator advances its state by one
Permute(g, s) ==
    IF s = <<>> THEN s
    ELSE LET k == g % Len(s)
         IN  SubSeq(s, k + 1, Len(s)) \o SubSeq(s, 1, k)

RECURSIVE SortSet(_)
SortSet(S) ==
    IF S = {} THEN <<>>
    ELSE LET lo == CHOOSE x \in S : \A z \in S : x <= z
         IN  <<lo>> \o SortSet(S \ {lo})

SeqToSet(s) == {s[k] : k \in 1 .. Len(s)}

\* _approximate_mode: the remaining draws go to the classes with the largest
\* remainders, ties broken by the generator.  rem holds the remainder of the
\* classes not yet looked at and -1 for the others.
RECURSIVE AddByRemainder(_, _, _, _)
AddByRemainder(floored, rem, need_to_add, g) ==
    IF need_to_add = 0 \/ \A c \in DOMAIN rem : rem[c] < 0
    THEN [n_i |-> floored, g |-> g]
    ELSE LET value == CHOOSE v \in SeqToSet(rem) : \A c \in DOMAIN rem : rem[c] <= v
             inds == SelectSeq([c \in DOMAIN rem |-> c], LAMBDA c : rem[c] = value)
             add_now == Min(Len(inds), need_to_add)
             chosen == SeqToSet(SubSeq(Permute(g, inds), 1, add_now))
         IN  AddByRemainder(
                 [c \in DOMAIN floored |-> floored[c] + (IF c \in chosen THEN 1 ELSE 0)],
                 [c \in DOMAIN rem |-> IF rem[c] = value THEN -1 ELSE rem[c]],
                 need_to_add - add_now, g + 1)

Remainders(class_counts, n_draws, total) ==
    [c \in DOMAIN class_counts |-> (class_counts[c] * n_draws) % total]

HandOut(floored, rem, n_draws, g) ==
    AddByRemainder(floored, rem, n_draws - SumSeq(floored), g)

Floored(class_counts, n_draws, total) ==
    [c \in DOMAIN class_counts |-> (class_counts[c] * n_draws) \div total]

\* class_counts / class_counts.sum() * n_draws, floored, and the rest handed
\* out by remainder (the quotients are taken exactly: a double quotient that
\* falls just under a whole number is floored one lower and then has the
\* largest remainder, which gives the same allocation)
approximate_mode(class_counts, n_draws, g) ==
    HandOut(Floored(class_counts, n_draws, SumSeq(class_counts)),
            Remainders(class_counts, n_draws, SumSeq(class_counts)), n_draws, g)

RECURSIVE Flatten(_)
Flatten(ss) == IF ss = <<>> THEN <<>> ELSE Head(ss) \o Flatten(Tail(ss))

\* the draws of StratifiedShuffleSplit._iter_indices
Drawn(class_counts, n_train, n_test, drawn) ==
    [status |-> "ok", n_train |-> n_train, n_test |-> n_test,
     n_i |-> drawn.n_i,
     \* the test draw takes all that remains of each class
     t_i |-> [c \in DOMAIN class_counts |-> class_counts[c] - drawn.n_i[c]],
     g |-> drawn.g]

\* _validate_shuffle_split and the checks and draws of
\* StratifiedShuffleSplit._iter_indices that depend on the class counts only
split_counts(class_counts, size, g) ==
    LET n_samples == SumSeq(class_counts)
        n_classes == Len(class_counts)
        n_test == CeilTimes(size, n_samples)
        n_train == n_samples - n_test
        failed == [status |-> "ValueError", n_train |-> 0, n_test |-> 0,
                   n_i |-> <<>>, t_i |-> <<>>, g |-> g]
    IN  IF ~(0 < size.num /\ size.num < size.den) THEN failed
        ELSE IF n_train = 0 THEN failed
        ELSE IF \E c \in 1 .. n_classes : class_counts[c] < 2 THEN failed
        ELSE IF n_train < n_classes \/ n_test < n_classes THEN failed
        ELSE Drawn(class_counts, n_train, n_test,
                   approximate_mode(class_counts, n_train, g))

\* the rows of each class permuted and dealt to the two sides, and each
\* side permuted
Dealt(class_indices, counts) ==
    IF counts.status # "ok"
    THEN [status |-> counts.status, train |-> <<>>, test |-> <<>>]
    ELSE LET n_classes == Len(class_indices)
             perm == [c \in 1 .. n_classes |->
                         Permute(counts.g + c - 1, class_indices[c])]
             train == Flatten([c \in 1 .. n_classes |->
                                  SubSeq(perm[c], 1, counts.n_i[c])])
             test == Flatten([c \in 1 .. n_classes |->
                                 SubSeq(perm[c], counts.n_i[c] + 1,
                                        counts.n_i[c] + counts.t_i[c])])
             g_train == counts.g + n_classes
         IN  [status |-> "ok",
              train |-> Permute(g_train, train),
              test |-> Permute(g_train + 1, test)]

SplitByClass(class_indices, size, g) ==
    Dealt(class_indices,
          split_counts([c \in DOMAIN class_indices |-> Len(class_indices[c])], size, g))

ClassIndices(rows, y, classes) ==
    [c \in 1 .. Len(classes) |-> SelectSeq(rows, LAMBDA i : y[i] = classes[c])]

\* train_test_split(frame, test_size=size, stratify=y, random_state=g):
\* rows is the frame's index in row order, y the label of each index
\* (StratifiedShuffleSplit validates the labels and raises ValueError on a
\* nan among them)
train_test_split(rows, y, size, g) ==
    IF \E k \in 1 .. Len(rows) : y[rows[k]] = NaN
    THEN [status |-> "ValueError", train |-> <<>>, test |-> <<>>]
    ELSE SplitByClass(ClassIndices(rows, y, SortSet({y[rows[k]] : k \in 1 .. Len(rows)})),
                 size, g)

SplitResult(status, test_size, val_size, sd, train, val, test) ==
    [status |-> status, test_size |-> test_size, val_size |-> val_size, seed |-> sd,
     train |-> train, val |-> val, test |-> test]

\* the three frames returned, or the error of the split that raised
Frames(first, second, test_size, val_size, sd) ==
    IF first.status # "ok"
    THEN SplitResult(first.status, test_size, val_size, sd, <<>>, <<>>, <<>>)
    ELSE IF second.status # "ok"
    THEN SplitResult(second.status, test_size, val_size, sd, <<>>, <<>>, <<>>)
    ELSE SplitResult("ok", test_size, val_size, sd,
                     second.train, second.test, first.test)

\* the second split taken from the whole frame instead of the remainder
SecondSplit_of_all(rows, y, first, test_size, val_size, sd, g_second) ==
    Frames(first,
           train_test_split(rows, y, relative_val_size(test_size, val_size), g_second),
           test_size, val_size, sd)

\* lines 64-74: the validation split of what the first split left
SecondSplit(rows, y, first, test_size, val_size, sd, g_second) ==
    Frames(first,
           train_test_split(first.train, y, relative_val_size(test_size, val_size),
                            g_second),
           test_size, val_size, sd)

\* lines 57-62: the test split of the frame
FirstSplit(rows, y, test_size, val_size, sd, g_first, g_second) ==
    SecondSplit(rows, y, train_test_split(rows, y, SizeOf(test_size), g_first),
                test_size, val_size, sd, g_second)

\* the body of stratified_split; a frame is kept as its index, the rows
\* being those of df under that index
split_frames(df, test_size, val_size, sd, g_first, g_second) ==
    FirstSplit([i \in 1 .. Len(df) |-> i],
               [i \in 1 .. Len(df) |-> df[i][TARGET_COLUMN]],
               test_size, val_size, sd, g_first, g_second)

\* what a stratified_split call leaves with the caller
Returned(result) ==
    /\ held' = [held EXCEPT !.split = result]
    /\ dret' = [op |-> "stratified_split", status |-> result.status]
    /\ prev_split' = held.split

\* both splits drawn from numpy's global generator (random_state left out)
stratified_split_unseeded(test_size, val_size, sd) ==
    /\ held.df_encoded # <<>>
    /\ Returned(split_frames(held.df_encoded, test_size, val_size, sd,
                             np_random, np_random + 1))
    /\ np_random' = (np_random + 2) % 4
    /\ UNCHANGED <<predictor_vars, training_vars, csv, scaler, counted>>

stratified_split(test_size, val_size, sd) ==
    /\ held.df_encoded # <<>>
    /\ Returned(split_frames(held.df_encoded, test_size, val_size, sd,
                             check_random_state(sd), check_random_state(sd)))
    /\ UNCHANGED <<predictor_vars, training_vars, csv, np_random, scaler, counted>>

-----------------------------------------------------------------------------
(* extract_features_labels and scale_features *)

NUM_FEATURES == Len(FEATURE_COLUMNS)

\* what astype(np.int32) makes of nan: the cast is undefined, and the builds
\* of numpy give the smallest int32 or 0
NanAsInt32 == {(-2147483647) - 1, 0}

\* extract_features_labels of the frame with the given index
FeaturesOf(df, index) ==
    [k \in 1 .. Len(index) |->
        [c \in 1 .. NUM_FEATURES |-> df[index[k]][FEATURE_COLUMNS[c]]]]

LabelsOf(df, index, nan_as) ==
    [k \in 1 .. Len(index) |->
        LET v == df[index[k]][TARGET_COLUMN]
        IN  IF v = NaN THEN nan_as ELSE v]

\* StandardScaler keeps per column the number of values seen, their mean and
\* their variance, nan left out; they are held exactly as the count, the sum
\* and the sum of squares
ColumnStats(X, c) ==
    LET seen == SelectSeq([k \in 1 .. Len(X) |-> X[k][c]], LAMBDA v : v # NaN)
    IN  [n |-> Len(seen),
         sum |-> SumSeq(seen),
         sumsq |-> SumSeq([k \in 1 .. Len(seen) |-> seen[k] * seen[k]])]

Unfitted == [fitted |-> FALSE, stats |-> <<>>]

\* scaler.fit(X): earlier statistics are dropped
scaler_fit(X) ==
    [fitted |-> TRUE, stats |-> [c \in 1 .. NUM_FEATURES |-> ColumnStats(X, c)]]

\* scaler.partial_fit(X): the statistics of X join those already held
scaler_partial_fit(sc, X) ==
    [fitted |-> TRUE,
     stats |-> [c \in 1 .. NUM_FEATURES |->
                  LET more == ColumnStats(X, c)
                  IN  [n |-> sc.stats[c].n + more.n,
                       sum |-> sc.stats[c].sum + more.sum,
                       sumsq |-> sc.stats[c].sumsq + more.sumsq]]]

\* (x - mean) / scale with mean = sum / n and scale = sqrt(variance), or 1
\* for a constant column: the value num / sqrt(den2), kept as [num, den2]
ScaleCell(st, x) ==
    IF x = NaN \/ st.n = 0 THEN [num |-> NaN, den2 |-> 0]
    ELSE LET spread == st.n * st.sumsq - st.sum * st.sum
         IN  [num |-> st.n * x - st.sum,
              den2 |-> IF spread = 0 THEN st.n * st.n ELSE spread]

Scaled(sc, X) ==
    [k \in 1 .. Len(X) |-> [c \in 1 .. NUM_FEATURES |-> ScaleCell(sc.stats[c], X[k][c])]]

\* transform that first adds its input to the statistics
scaler_transform_refits(sc, X) ==
    LET more == scaler_partial_fit(sc, X)
    IN  [scaler |-> more, out |-> Scaled(more, X)]

\* scaler.transform(X): the scaler after the call and the matrix returned
scaler_transform(sc, X) == [scaler |-> sc, out |-> Scaled(sc, X)]

\* the scaler fitted on the three matrices together
scale_features_result_fit_all(X_train, X_val, X_test) ==
    LET fitted == scaler_fit(X_train \o X_val \o X_test)
        train == scaler_transform(fitted, X_train)
        val == scaler_transform(train.scaler, X_val)
        test == scaler_transform(val.scaler, X_test)
    IN  [scaler |-> test.scaler,
         X_train |-> train.out, X_val |-> val.out, X_test |-> test.out]

\* fit_transform(X_train), transform(X_val), transform(X_test)
scale_features_result(X_train, X_val, X_test) ==
    LET fitted == scaler_fit(X_train)
        train == scaler_transform(fitted, X_train)
        val == scaler_transform(train.scaler, X_val)
        test == scaler_transform(val.scaler, X_test)
    IN  [scaler |-> test.scaler,
         X_train |-> train.out, X_val |-> val.out, X_test |-> test.out]

Matrices(X_train_raw, X_val_raw, X_test_raw, scaled, y_train, y_val, y_test) ==
    [scaler |-> scaled.scaler,
     matrices |->
        [status |-> "ok",
         X_train_raw |-> X_train_raw, X_val_raw |-> X_val_raw,
         X_test_raw |-> X_test_raw,
         X_train |-> scaled.X_train, X_val |-> scaled.X_val,
         X_test |-> scaled.X_test,
         y_train |-> y_train, y_val |-> y_val, y_test |-> y_test]]

Scale(X_train_raw, X_val_raw, X_test_raw, y_train, y_val, y_test) ==
    Matrices(X_train_raw, X_val_raw, X_test_raw,
             scale_features_result(X_train_raw, X_val_raw, X_test_raw),
             y_train, y_val, y_test)

\* lines 111-117 of prepare_all on the frames of a split: the matrices
\* returned and the scaler left
MatricesOf(df, split, nan_as) ==
    Scale(FeaturesOf(df, split.train), FeaturesOf(df, split.val),
          FeaturesOf(df, split.test),
          LabelsOf(df, split.train, nan_as), LabelsOf(df, split.val, nan_as),
          LabelsOf(df, split.test, nan_as))

\* extract_features_labels of the three frames the caller holds, then
\* scale_features of the three feature matrices
scale_features(nan_as) ==
    /\ held.split.status = "ok"
    /\ LET made == MatricesOf(held.df_encoded, held.split, nan_as)
       IN  /\ scaler' = made.scaler
           /\ held' = [held EXCEPT !.matrices = made.matrices]
    /\ dret' = [op |-> "scale_features", status |-> "ok"]
    /\ UNCHANGED <<predictor_vars, training_vars, csv, np_random, prev_split, counted>>

\* scaler.transform applied again to a raw matrix the caller holds
transform(part) ==
    /\ scaler.fitted
    /\ held.matrices.status = "ok"
    /\ LET again == scaler_transform(scaler, held.matrices[part \o "_raw"])
       IN  /\ scaler' = again.scaler
           /\ dret' = [op |-> "transform", status |-> "ok", part |-> part,
                       out |-> again.out]
    /\ UNCHANGED <<predictor_vars, training_vars, csv, np_random, held, prev_split, counted>>

\* lines 111-135 of prepare_all, or the error raised before them
Prepared(df_encoded, split, nan_as) ==
    IF split.status = "ok"
    THEN LET made == MatricesOf(df_encoded, split, nan_as)
         IN  /\ scaler' = made.scaler
             /\ held' = [df_raw |-> csv, df_encoded |-> df_encoded,
                         split |-> split, matrices |-> made.matrices]
             /\ prev_split' = held.split
             /\ dret' = [op |-> "prepare_all", status |-> "ok"]
    ELSE /\ dret' = [op |-> "prepare_all", status |-> split.status]
         /\ UNCHANGED <<scaler, held, prev_split>>

Split(df_encoded, nan_as) ==
    Prepared(df_encoded,
             split_frames(df_encoded, DEFAULT_TEST_SIZE, DEFAULT_VAL_SIZE,
                          DEFAULT_SEED, check_random_state(DEFAULT_SEED),
                          check_random_state(DEFAULT_SEED)),
             nan_as)

prepare_all(nan_as) ==
    /\ csv # <<>>
    /\ Split(Encode(csv), nan_as)
    /\ UNCHANGED <<predictor_vars, training_vars, csv, np_random, counted>>

-----------------------------------------------------------------------------
(* The partition sizes of stratified_split on a file of balanced records   *)
(* given by its record count                                               *)

\* the class counts of n records whose targets go round the three classes
BalancedCounts(n) ==
    SelectSeq([c \in 1 .. Len(CLASS_NAMES) |-> (n + Len(CLASS_NAMES) - c) \div Len(CLASS_NAMES)],
              LAMBDA count : count > 0)

NoCount(n) == [n |-> n, status |-> "none", test_size |-> 0, val_size |-> 0,
               train |-> 0, val |-> 0, test |-> 0]

Counted(first, second, test_size, val_size) ==
    IF first.status = "ok" /\ second.status = "ok"
    THEN [n |-> counted.n, status |-> "ok",
          test_size |-> test_size, val_size |-> val_size,
          train |-> second.n_train, val |-> second.n_test, test |-> first.n_test]
    ELSE [n |-> counted.n,
          status |-> IF first.status # "ok" THEN first.status ELSE second.status,
          test_size |-> test_size, val_size |-> val_size,
          train |-> 0, val |-> 0, test |-> 0]

SecondCount(first, test_size, val_size, sd) ==
    Counted(first,
            split_counts(SelectSeq(first.n_i, LAMBDA count : count > 0),
                         relative_val_size(test_size, val_size),
                         check_random_state(sd)),
            test_size, val_size)

\* stratified_split followed through the counts: the test split of the
\* frame, then the validation split of the remainder
partition_sizes(test_size, val_size, sd) ==
    /\ counted' = SecondCount(split_counts(BalancedCounts(counted.n), SizeOf(test_size),
                                           check_random_state(sd)),
                              test_size, val_size, sd)
    /\ UNCHANGED <<predictor_vars, training_vars, csv, np_random, scaler, held, prev_split, dret>>

-----------------------------------------------------------------------------
(* model.fit with the callbacks of get_training_callbacks                  *)
(*                                                                         *)
(* A validation loss is an integer number of units of 1e-4 (the min_delta  *)
(* of ReduceLROnPlateau) or NaN; a learning rate is an integer number of   *)
(* units of min_lr / MIN_LR.  The weights a model holds are named by the   *)
(* epoch that produced them and the validation loss of that epoch.         *)

EARLY_STOPPING_PATIENCE == 20

LR_REDUCE_PATIENCE == 10

\* min_delta of ReduceLROnPlateau (its default, 1e-4)
MIN_DELTA == 1

\* min_lr = 1e-7, in units that 14 halvings of the initial rate divide
MIN_LR == 16384

\* np.Inf, the best value a callback starts from
Inf == 100

\* the validation loss of an epoch
Losses == {1, 2, 3, NaN}

\* epochs=args.epochs
EpochLimits == {3, MaxEpochs}

\* np.less: no comparison with nan is true
Less(a, b) == a # NaN /\ b # NaN /\ a < b

\* lr = 0.001 of the builder, in the units of the model
InitialLr == 10000 * MIN_LR

NoWeights == [epoch |-> -1, val_loss |-> NaN]

\* the model a builder returns, compiled and untrained
Built == [weights |-> [epoch |-> 0, val_loss |-> Inf],
          lr |-> InitialLr,
          stop_training |-> FALSE]

\* EarlyStopping.on_train_begin
EarlyStopping ==
    [wait |-> 0, stopped_epoch |-> 0, best |-> Inf, best_epoch |-> 0,
     best_weights |-> NoWeights]

\* ReduceLROnPlateau.on_train_begin (_reset)
ReduceLROnPlateau == [best |-> Inf, wait |-> 0, plateaus |-> 0, reduced_after |-> 0]

\* ModelCheckpoint(save_best_only=True, save_weights_only=True)
ModelCheckpoint == [best |-> Inf, file |-> NoWeights]

NoFit == [status |-> "idle", epochs |-> 0, epoch |-> 0, model |-> Built,
          es |-> EarlyStopping, rlr |-> ReduceLROnPlateau, ckpt |-> ModelCheckpoint,
          min_loss |-> Inf, flat |-> 0]

\* EarlyStopping.on_epoch_end(epoch, logs) with monitor 'val_loss', min_delta
\* 0 and restore_best_weights: the best weights are put back only in the
\* branch that stops the training
EarlyStopping_on_epoch_end(cb, model, epoch, current) ==
    LET kept == IF cb.best_weights = NoWeights
                THEN [cb EXCEPT !.best_weights = model.weights]
                ELSE cb
        waited == [kept EXCEPT !.wait = @ + 1]
    IN  IF Less(current, waited.best)
        THEN [cb |-> [waited EXCEPT !.best = current, !.best_epoch = epoch,
                                    !.best_weights = model.weights, !.wait = 0],
              model |-> model]
        ELSE IF waited.wait >= EARLY_STOPPING_PATIENCE /\ epoch > 0
        THEN [cb |-> [waited EXCEPT !.stopped_epoch = epoch],
              model |-> [model EXCEPT !.stop_training = TRUE,
                                      !.weights = waited.best_weights]]
        ELSE [cb |-> waited, model |-> model]

\* new_lr = max(old_lr * factor, min_lr) with factor 0.5, when old_lr > min_lr
Reduced(lr) == IF lr > MIN_LR
               THEN (IF lr \div 2 > MIN_LR THEN lr \div 2 ELSE MIN_LR)
               ELSE lr

\* the plateau window of ReduceLROnPlateau as long as twice the patience of
\* EarlyStopping
ReduceLROnPlateau_on_epoch_end_long(cb, model, current) ==
    IF Less(current, cb.best - MIN_DELTA)
    THEN [cb |-> [cb EXCEPT !.best = current, !.wait = 0], model |-> model]
    ELSE IF cb.wait + 1 >= 2 * EARLY_STOPPING_PATIENCE
    THEN [cb |-> [cb EXCEPT !.wait = 0, !.plateaus = @ + 1,
                            !.reduced_after = cb.wait + 1],
          model |-> [model EXCEPT !.lr = Reduced(model.lr)]]
    ELSE [cb |-> [cb EXCEPT !.wait = @ + 1], model |-> model]

\* ReduceLROnPlateau.on_epoch_end with cooldown 0: plateaus counts the times
\* the plateau window was reached, reduced_after is the wait it was reached
\* at
ReduceLROnPlateau_on_epoch_end(cb, model, current) ==
    IF Less(current, cb.best - MIN_DELTA)
    THEN [cb |-> [cb EXCEPT !.best = current, !.wait = 0], model |-> model]
    ELSE IF cb.wait + 1 >= LR_REDUCE_PATIENCE
    THEN [cb |-> [cb EXCEPT !.wait = 0, !.plateaus = @ + 1,
                            !.reduced_after = cb.wait + 1],
          model |-> [model EXCEPT !.lr = Reduced(model.lr)]]
    ELSE [cb |-> [cb EXCEPT !.wait = @ + 1], model |-> model]

\* ModelCheckpoint.on_epoch_end: the weights are written when the monitored
\* value is below the best so far
ModelCheckpoint_on_epoch_end(cb, model, current) ==
    IF Less(current, cb.best)
    THEN [best |-> current, file |-> model.weights]
    ELSE cb

\* the minimum of the losses seen and the number of epochs since it was
\* last lowered, as the losses themselves give them
Seen(f, current) ==
    IF Less(current, f.min_loss)
    THEN [f EXCEPT !.min_loss = current, !.flat = 0]
    ELSE [f EXCEPT !.flat = @ + 1]

\* the end of an epoch: the callbacks in the order of the list, the second
\* on the model the first left, then the loop's test of stop_training
AfterCheckpoint(f, rlr_out, current) ==
    [f EXCEPT !.model = rlr_out.model,
              !.rlr = rlr_out.cb,
              !.ckpt = ModelCheckpoint_on_epoch_end(f.ckpt, rlr_out.model, current),
              !.epoch = @ + 1,
              !.status = IF rlr_out.model.stop_training \/ f.epoch + 1 = f.epochs
                         THEN "ended" ELSE "fitting"]

AfterEarlyStopping(f, es_out, current) ==
    AfterCheckpoint([f EXCEPT !.es = es_out.cb],
                    ReduceLROnPlateau_on_epoch_end(f.rlr, es_out.model, current),
                    current)

\* one epoch of training and validation: the model holds the weights of
\* this epoch when the callbacks run
Epoch(f, current) ==
    AfterEarlyStopping(Seen(f, current),
                       EarlyStopping_on_epoch_end(
                           f.es,
                           [f.model EXCEPT !.weights = [epoch |-> f.epoch + 1,
                                                        val_loss |-> current]],
                           f.epoch, current),
                       current)

\* model.fit(..., epochs=epochs, callbacks=get_training_callbacks(name))
\* starts: a built model and fresh callbacks
fit_begin(epochs) ==
    /\ fit.status \in {"idle", "ended"}
    /\ fit' = [NoFit EXCEPT !.status = "fitting", !.epochs = epochs]
    /\ UNCHANGED <<predictor_vars, pipeline_vars, run, hpo>>

fit_epoch(val_loss) ==
    /\ fit.status = "fitting"
    /\ fit' = Epoch(fit, val_loss)
    /\ UNCHANGED <<predictor_vars, pipeline_vars, run, hpo>>

-----------------------------------------------------------------------------
(* A run of main in the modes full, ensemble and bert: prepare_all, the    *)
(* embeddings, train_all member by member, save_all and the evaluation     *)

Modes == {"full", "ensemble", "bert"}

\* row_to_clinical_text: per feature column the phrase of the row's value,
\* a value without a template leaving no phrase; a phrase is named by the
\* value it is the template of
row_to_clinical_text(row) ==
    [c \in 1 .. NUM_FEATURES |->
        IF row[FEATURE_COLUMNS[c]] \in DOMAIN CATEGORY_MAPS[FEATURE_COLUMNS[c]]
        THEN row[FEATURE_COLUMNS[c]]
        ELSE ""]

generate_all(df_raw) == [i \in 1 .. Len(df_raw) |-> row_to_clinical_text(df_raw[i])]

\* extract_embeddings: one [CLS] vector per text, in the order of the texts;
\* the vector is a function of the text
extract_embeddings(texts) == [k \in 1 .. Len(texts) |-> [cls |-> texts[k]]]

\* the first len(indices) texts of the file instead of the texts at the
\* indices
TextsAt_file_order(all_texts, indices) ==
    [k \in 1 .. Len(indices) |-> all_texts[k]]

\* [all_texts[i] for i in indices]
TextsAt(all_texts, indices) ==
    [k \in 1 .. Len(indices) |-> all_texts[indices[k]]]

NoBert == [origin |-> "none", train |-> <<>>, val |-> <<>>, test |-> <<>>]

\* load_bert_embeddings found the three files of an earlier run; what they
\* hold is not part of this run
FromDisk == [origin |-> "disk", train |-> <<>>, val |-> <<>>, test |-> <<>>]

Extracted(all_texts, split) ==
    [origin |-> "extracted",
     train |-> extract_embeddings(TextsAt(all_texts, split.train)),
     val |-> extract_embeddings(TextsAt(all_texts, split.val)),
     test |-> extract_embeddings(TextsAt(all_texts, split.test))]

NoRun == [mode |-> "none", pc |-> "none", bert |-> NoBert, pos0 |-> 0,
          member |-> 0, phase |-> "idle", in_fit |-> {}, fits |-> 0,
          how |-> "none"]

\* a cell of the matrix is missing
HasNaN(X) == \E k \in 1 .. Len(X) : \E c \in 1 .. NUM_FEATURES : X[k][c] = NaN

\* main line 162: data = pipeline.prepare_all()
MainPrepare(nan_as) ==
    /\ run.pc = "start"
    /\ dret.op = "init"
    /\ prepare_all(nan_as)

\* main lines 183-186 and 190-192: run_bert_extraction in the modes full
\* and bert; the mode bert ends here
run_bert_extraction ==
    /\ run.pc = "start"
    /\ dret.op = "prepare_all"
    /\ dret.status = "ok"
    /\ run.mode \in {"full", "bert"}
    /\ run' = [run EXCEPT !.bert = Extracted(generate_all(held.df_raw), held.split),
                          !.pc = IF run.mode = "bert" THEN "done" ELSE "bert_done"]
    /\ UNCHANGED <<predictor_vars, pipeline_vars, fit, hpo>>

\* main lines 187-188: load_bert_embeddings in the mode ensemble
load_bert_embeddings(present) ==
    /\ run.pc = "start"
    /\ dret.op = "prepare_all"
    /\ dret.status = "ok"
    /\ run.mode = "ensemble"
    /\ run' = [run EXCEPT !.bert = IF present THEN FromDisk ELSE NoBert,
                          !.pc = "bert_done"]
    /\ UNCHANGED <<predictor_vars, pipeline_vars, fit, hpo>>

HasBert == run.bert.origin # "none"

\* the members this train_all call trains, in the order it trains them:
\* main passes both raw matrices, and the embeddings it holds
Plan == TrainedMembers(seed, run.pos0, TRUE, TRUE, HasBert, HasBert)

\* main lines 202-208: the predictor is constructed and train_all is called
train_all_begin ==
    /\ run.pc = "bert_done"
    /\ trains < MaxTrainCalls
    /\ run' = [run EXCEPT !.pc = "training", !.pos0 = built, !.member = 1,
                          !.phase = "idle"]
    /\ UNCHANGED <<predictor_vars, pipeline_vars, fit, hpo>>

\* with self.strategy.scope(): model = builder()
train_build ==
    /\ run.pc = "training"
    /\ run.phase = "idle"
    /\ run.member <= Len(Plan)
    /\ run' = [run EXCEPT !.phase = "built"]
    /\ UNCHANGED <<predictor_vars, pipeline_vars, fit, hpo>>

\* model.fit of the member is started and the next member is taken up
\* without waiting for it
train_fit_begin_no_wait ==
    /\ run.pc = "training"
    /\ run.phase = "built"
    /\ run' = [run EXCEPT !.phase = IF run.member < Len(Plan) THEN "idle" ELSE "fitting",
                          !.member = IF run.member < Len(Plan) THEN @ + 1 ELSE @,
                          !.in_fit = @ \cup {run.member},
                          !.fits = @ + 1]
    /\ UNCHANGED <<predictor_vars, pipeline_vars, fit, hpo>>

\* model.fit of the member starts on the train and validation matrices
train_fit_begin ==
    /\ run.pc = "training"
    /\ run.phase = "built"
    /\ run' = [run EXCEPT !.phase = "fitting",
                          !.in_fit = @ \cup {run.member},
                          !.fits = @ + 1]
    /\ UNCHANGED <<predictor_vars, pipeline_vars, fit, hpo>>

\* model.fit returns, at the epoch limit or stopped by EarlyStopping
train_fit_end(how) ==
    /\ run.pc = "training"
    /\ run.phase = "fitting"
    /\ run' = [run EXCEPT !.phase = "fitted",
                          !.in_fit = @ \ {run.member},
                          !.how = how]
    /\ UNCHANGED <<predictor_vars, pipeline_vars, fit, hpo>>

\* what train_all returned or raised, as the caller sees it
TrainAllCall(status) ==
    [op |-> "train_all", status |-> status,
     X_train_raw |-> TRUE, X_val_raw |-> TRUE,
     bert_train |-> HasBert, bert_val |-> HasBert,
     fresh |-> (run.pos0 = built - (run.member - 1) /\ Len(trained_models) = run.member - 1),
     pos |-> run.pos0]

\* model.predict(X_val) and roc_auc_score raise on a missing value: a model
\* fitted on a missing cell predicts nan, and so does any model on a row of
\* X_val with a missing cell
train_score_raises ==
    /\ run.pc = "training"
    /\ run.phase = "fitted"
    /\ HasNaN(held.matrices.X_train_raw) \/ HasNaN(held.matrices.X_val_raw)
    /\ run' = [run EXCEPT !.pc = "aborted"]
    /\ ret' = TrainAllCall("ValueError")
    /\ UNCHANGED <<pipeline_vars, fit, hpo, seed, built, trained_models, model_names,
                   individual_aucs, disk_models, disk_aucs, saved, removed, procs,
                   trains>>

\* the member is scored on the validation matrix and appended; after the
\* last member train_all returns
train_score ==
    /\ run.pc = "training"
    /\ run.phase = "fitted"
    /\ ~HasNaN(held.matrices.X_train_raw)
    /\ ~HasNaN(held.matrices.X_val_raw)
    /\ trained_models' = Append(trained_models, Plan[run.member].model)
    /\ model_names' = Append(model_names, Plan[run.member].name)
    /\ individual_aucs' = Append(individual_aucs, Plan[run.member].auc)
    /\ built' = built + 1
    /\ IF run.member < Len(Plan)
       THEN /\ run' = [run EXCEPT !.member = @ + 1, !.phase = "idle"]
            /\ UNCHANGED <<ret, trains>>
       ELSE /\ run' = [run EXCEPT !.pc = "trained", !.phase = "idle"]
            /\ ret' = TrainAllCall("ok")
            /\ trains' = trains + 1
    /\ UNCHANGED <<pipeline_vars, fit, hpo, seed, disk_models, disk_aucs, saved,
                   removed, procs>>

\* save_all called right after the embeddings, before train_all
MainSave_before_training ==
    /\ run.pc = "bert_done"
    /\ ret.op = "init"
    /\ save_all

\* main line 211: ensemble.save_all()
MainSave ==
    /\ run.pc = "trained"
    /\ ret.op = "train_all"
    /\ save_all

\* main lines 225-228: evaluate_auc on the test matrices
MainEvaluate ==
    /\ run.pc = "trained"
    /\ ret.op = "save_all"
    /\ ~HasNaN(held.matrices.X_test_raw)
    /\ evaluate_auc(TRUE, HasBert, TRUE)

\* evaluate_auc on a test matrix with a missing cell: the tabular members
\* predict nan and roc_auc_score raises ValueError, unless EmbeddingNet has
\* raised before on the index the missing cell was cast to
MainEvaluateRaises(raised) ==
    /\ run.pc = "trained"
    /\ ret.op = "save_all"
    /\ HasNaN(held.matrices.X_test_raw)
    /\ ret' = [op |-> "evaluate_auc", X_raw |-> TRUE, bert_embeddings |-> HasBert,
               weighted |-> TRUE, all_probs |-> <<>>, status |-> raised,
               value |-> << >>]
    /\ UNCHANGED <<pipeline_vars, training_vars, seed, built, trained_models,
                   model_names, individual_aucs, disk_models, disk_aucs, saved,
                   removed, procs, trains>>

\* main lines 233-235: predict_weighted_ensemble on the test matrices
MainPredict ==
    /\ run.pc = "trained"
    /\ ret.op = "evaluate_auc"
    /\ ret.status = "ok"
    /\ predict_weighted_ensemble(TRUE, HasBert)

-----------------------------------------------------------------------------
(* Hyperparameter search: the trials of study.optimize (Optuna) and of     *)
(* tune.run (Ray Tune)                                                     *)

Backends == {"optuna", "ray"}

\* RayTuner's max_concurrent, handed to tune.run as max_concurrent_trials
max_concurrent == 4

\* how many trials the backend runs at a time: study.optimize is called
\* without n_jobs and runs one trial after the other
Concurrency(backend) == IF backend = "ray" THEN max_concurrent ELSE 1

\* the ways a trial ends: the objective returns; TrialPruned raised by the
\* pruning callback inside fit, or the scheduler stopping the trainable at
\* tune.report; an exception out of fit, predict or roc_auc_score
Outcomes == {"complete", "pruned", "error"}

NoHpo == [backend |-> "none", trials |-> <<>>, aborted |-> FALSE]

Running(trials) == {i \in 1 .. Len(trials) : trials[i].state = "running"}

\* the trials that ended without tf.keras.backend.clear_session()
Uncleared(trials) ==
    {i \in 1 .. Len(trials) : trials[i].state # "running" /\ ~trials[i].cleared}

\* HPORunner.run(backend)
hpo_run(backend) ==
    /\ hpo.backend = "none"
    /\ hpo' = [hpo EXCEPT !.backend = backend]
    /\ UNCHANGED <<predictor_vars, pipeline_vars, fit, run>>

\* the backend starts the next trial and the trial builds its model; beside
\* records the trials running and the trials left uncleared at that moment
trial_begin ==
    /\ hpo.backend # "none"
    /\ ~hpo.aborted
    /\ Len(hpo.trials) < MaxTrials
    /\ Cardinality(Running(hpo.trials)) < Concurrency(hpo.backend)
    /\ hpo' = [hpo EXCEPT !.trials =
                  Append(@, [state |-> "running", cleared |-> FALSE,
                             beside |-> Running(hpo.trials),
                             over |-> Uncleared(hpo.trials)])]
    /\ UNCHANGED <<predictor_vars, pipeline_vars, fit, run>>

\* the trial ends: clear_session is the last statement of the objective and
\* of the trainable, reached only when nothing was raised before it and the
\* trainable was not stopped; an exception other than TrialPruned ends
\* study.optimize, while Ray Tune goes on with the other trials
trial_end(i, outcome) ==
    /\ i \in Running(hpo.trials)
    /\ hpo' = [hpo EXCEPT !.trials[i].state = outcome,
                          !.trials[i].cleared = (outcome = "complete"),
                          !.aborted = @ \/ (hpo.backend = "optuna" /\ outcome = "error")]
    /\ UNCHANGED <<predictor_vars, pipeline_vars, fit, run>>


-----------------------------------------------------------------------------
(* A process starts: main seeds the random generators with the run's seed  *)
(* and constructs a predictor; the ensemble directory outlives the process *)

NoCall == [op |-> "init", status |-> "ok"]

Construct ==
    /\ procs < MaxProcesses
    /\ procs' = procs + 1
    /\ built' = 0
    /\ trained_models' = <<>>
    /\ model_names' = <<>>
    /\ individual_aucs' = <<>>
    /\ ret' = NoCall
    /\ UNCHANGED <<pipeline_vars, training_vars, seed, disk_models, disk_aucs, saved, removed, trains>>

InitPredictor ==
    /\ seed \in Seeds
    /\ built = 0
    /\ trained_models = <<>>
    /\ model_names = <<>>
    /\ individual_aucs = <<>>
    /\ disk_models = << >>
    /\ disk_aucs = NoFile
    /\ saved = [names |-> <<>>, aucs |-> <<>>, models |-> <<>>,
                 after_train |-> FALSE]
    /\ removed = 0
    /\ procs = 1
    /\ trains = 0
    /\ ret = NoCall

\* no input file: the pipeline is not run
InitPipeline ==
    /\ csv = <<>>
    /\ np_random = seed
    /\ scaler = Unfitted
    /\ held = NoFrames
    /\ prev_split = NoSplit
    /\ dret = NoCall
    /\ counted = NoCount(0)

\* no fit, no run of main and no hyperparameter search under way
InitTraining ==
    /\ fit = NoFit
    /\ run = NoRun
    /\ hpo = NoHpo

Init == InitPredictor /\ InitPipeline /\ InitTraining

Next ==
    \/ Construct
    \/ (trains < MaxTrainCalls /\ \E a, b, c, d \in BOOLEAN : train_all(a, b, c, d))
    \/ \E X_raw, bert \in BOOLEAN : predict_ensemble(X_raw, bert)
    \/ \E X_raw, bert \in BOOLEAN : predict_weighted_ensemble(X_raw, bert)
    \/ \E X_raw, bert, weighted \in BOOLEAN : evaluate_auc(X_raw, bert, weighted)
    \/ save_all
    \/ load_all
    \/ \E name \in DOMAIN disk_models : RemoveArtifact(name)

Spec == Init /\ [][Next]_vars

\* Runs that train, save and load only, with room for a second train_all on
\* the same predictor or on a reloaded one
NextRetrain ==
    \/ Construct
    \/ (trains < MaxRetrainCalls /\ \E a, b, c, d \in BOOLEAN : train_all(a, b, c, d))
    \/ save_all
    \/ load_all

SpecRetrain == Init /\ [][NextRetrain]_vars

-----------------------------------------------------------------------------
(* The data pipeline on its own: a process that constructs a DataPipeline  *)
(* on an input file and calls its methods                                  *)

\* the input files of the model
Files == {RawFile(n, shape) : n \in 1 .. MaxRecords, shape \in Shapes}

\* the fraction pairs (test_size, val_size) the methods are called with
SplitFractions == { <<DEFAULT_TEST_SIZE, DEFAULT_VAL_SIZE>>, <<20, 20>>, <<50, 50>> }

InitData ==
    /\ InitPredictor
    /\ InitTraining
    /\ seed = 0
    /\ csv \in Files
    /\ np_random = seed
    /\ scaler = Unfitted
    /\ held = NoFrames
    /\ prev_split = NoSplit
    /\ dret = NoCall
    /\ counted = NoCount(0)

NextData ==
    \/ load_and_encode
    \/ \E f \in SplitFractions, sd \in Seeds : stratified_split(f[1], f[2], sd)
    \/ \E nan_as \in NanAsInt32 : scale_features(nan_as)
    \/ \E part \in {"X_val", "X_test"} : transform(part)
    \/ \E nan_as \in NanAsInt32 : prepare_all(nan_as)

SpecData == InitData /\ [][NextData]_vars

InitSizes ==
    /\ InitPredictor
    /\ InitTraining
    /\ seed = 0
    /\ csv = <<>>
    /\ np_random = seed
    /\ scaler = Unfitted
    /\ held = NoFrames
    /\ prev_split = NoSplit
    /\ dret = NoCall
    /\ \E n \in 1 .. MaxCount : counted = NoCount(n)

NextSizes ==
    \E f \in SplitFractions, sd \in Seeds : partition_sizes(f[1], f[2], sd)

SpecSizes == InitSizes /\ [][NextSizes]_vars

-----------------------------------------------------------------------------
(* One member's training on its own: fits of a built model under the       *)
(* training callbacks, over every sequence of validation losses            *)

InitFit ==
    /\ InitPredictor
    /\ seed = 0
    /\ InitPipeline
    /\ InitTraining

NextFit ==
    \/ \E epochs \in EpochLimits : fit_begin(epochs)
    \/ \E val_loss \in Losses : fit_epoch(val_loss)

SpecFit == InitFit /\ [][NextFit]_vars

-----------------------------------------------------------------------------
(* Runs of main on an input file                                           *)

MainFiles ==
    {RawFile(n, shape) : n \in 1 .. MaxRecords,
                         shape \in {"balanced", "unmapped_feature", "unmapped_target"}}

InitMain ==
    /\ InitPredictor
    /\ seed = 0
    /\ csv \in MainFiles
    /\ np_random = seed
    /\ scaler = Unfitted
    /\ held = NoFrames
    /\ prev_split = NoSplit
    /\ dret = NoCall
    /\ counted = NoCount(0)
    /\ fit = NoFit
    /\ hpo = NoHpo
    /\ \E mode \in Modes : run = [NoRun EXCEPT !.mode = mode, !.pc = "start"]

NextMain ==
    \/ \E nan_as \in NanAsInt32 : MainPrepare(nan_as)
    \/ run_bert_extraction
    \/ \E present \in BOOLEAN : load_bert_embeddings(present)
    \/ train_all_begin
    \/ train_build
    \/ train_fit_begin
    \/ \E how \in {"epoch_limit", "early_stop"} : train_fit_end(how)
    \/ train_score
    \/ train_score_raises
    \/ MainSave
    \/ MainEvaluate
    \/ \E raised \in {"ValueError", "InvalidArgumentError"} : MainEvaluateRaises(raised)
    \/ MainPredict

SpecMain == InitMain /\ [][NextMain]_vars

-----------------------------------------------------------------------------
(* A hyperparameter search with either backend                             *)

InitHpo ==
    /\ InitPredictor
    /\ seed = 0
    /\ InitPipeline
    /\ InitTraining

NextHpo ==
    \/ \E backend \in Backends : hpo_run(backend)
    \/ trial_begin
    \/ \E i \in 1 .. MaxTrials : \E outcome \in Outcomes : trial_end(i, outcome)

SpecHpo == InitHpo /\ [][NextHpo]_vars

-----------------------------------------------------------------------------
(* Properties *)

\* two aggregated results are the same probabilities, class by class
SameProbabilities(a, b) ==
    /\ a.status = "ok"
    /\ b.status = "ok"
    /\ \A c \in 1 .. NUM_CLASSES : a.num[c] * b.den = b.num[c] * a.den

AllEqual(s) == \A i, j \in 1 .. Len(s) : s[i] = s[j]

IsPrediction(call) ==
    call.op \in {"predict_ensemble", "predict_weighted_ensemble", "evaluate_auc"}

\* C1: whenever predict_weighted_ensemble returns probabilities, they are,
\* per class, the sum over the contributing members of (the member's own
\* validation AUC times the member's prediction) over the sum of those AUCs.
C1_WeightedByOwnAuc ==
    (ret.op = "predict_weighted_ensemble" /\ ret.status = "ok") =>
        LET own == [k \in 1 .. Len(ret.all_probs) |-> ValAuc(ret.all_probs[k].model)]
        IN  SameProbabilities(ret.value, average(ret.all_probs, own))

\* C2: whenever predict_ensemble returns probabilities, every member of the
\* active roster contributed a prediction, each was handed the input kind its
\* architecture declares, and the result is per class the sum of the members'
\* predictions over the size of the roster.
C2_MeanOverEveryMember ==
    (ret.op = "predict_ensemble" /\ ret.status = "ok") =>
        /\ Len(ret.all_probs) = Len(trained_models)
        /\ \A k \in 1 .. Len(ret.all_probs) :
              ret.all_probs[k].kind = InputKind(ret.all_probs[k].model.arch)
        /\ ret.value.den = Len(trained_models)
        /\ \A c \in 1 .. NUM_CLASSES :
              ret.value.num[c] =
                  SumSeq([i \in 1 .. Len(trained_models) |-> Probs(trained_models[i])[c]])

\* C3: on a non-empty active roster every predict_ensemble call, whatever
\* optional inputs it is given, returns a row whose classes sum to 1.
C3_RowsSumToOne ==
    (ret.op = "predict_ensemble" /\ trained_models # <<>>) =>
        /\ ret.status = "ok"
        /\ SumSeq(ret.value.num) = ONE * ret.value.den

C5_MissingInputRaises ==
    (/\ IsPrediction(ret)
     /\ \E i \in 1 .. Len(model_names) :
           \/ (model_names[i] = "EmbeddingNet" /\ ~ret.X_raw)
           \/ (model_names[i] = "BERTFusion" /\ ~ret.bert_embeddings)) =>
        ret.status \notin {"ok", "nan"}

\* the names a roster holds
NamesOf(names) == {names[i] : i \in 1 .. Len(names)}

\* C6: after train_all on a fresh predictor the call has raised nothing and
\* the roster is the 10 tabular members, then EmbeddingNet exactly when both
\* raw-integer matrices were supplied, then BERTFusion exactly when both
\* embedding matrices were supplied.
C6_RosterFromSuppliedInputs ==
    (ret.op = "train_all" /\ ret.fresh) =>
        LET n == Len(TABULAR_MODEL_BUILDERS)
            e == IF ret.X_train_raw /\ ret.X_val_raw THEN 1 ELSE 0
            b == IF ret.bert_train /\ ret.bert_val THEN 1 ELSE 0
        IN  /\ ret.status = "ok"
            /\ Len(trained_models) = n + e + b
            /\ Len(model_names) = n + e + b
            /\ \A i \in 1 .. n :
                  /\ trained_models[i].arch = i
                  /\ InputKind(trained_models[i].arch) = "tabular"
                  /\ model_names[i] \notin {"EmbeddingNet", "BERTFusion"}
            /\ ("EmbeddingNet" \in NamesOf(model_names)) <=> (e = 1)
            /\ ("BERTFusion" \in NamesOf(model_names)) <=> (b = 1)
            /\ \A i \in 1 .. Len(model_names) :
                  /\ (model_names[i] = "EmbeddingNet") <=>
                        (trained_models[i].arch = EMBEDDING_MODEL_BUILDER)
                  /\ (model_names[i] = "BERTFusion") <=>
                        (trained_models[i].arch = BERT_FUSION_MODEL_BUILDER)

\* C6 witness: a train_all on a fresh predictor given only one of the two
\* raw-integer matrices and both embedding matrices: EmbeddingNet was left
\* out and BERTFusion was still trained
C6_Witness ==
    /\ ret.op = "train_all"
    /\ ret.fresh
    /\ ret.X_train_raw
    /\ ~ret.X_val_raw
    /\ ret.bert_train
    /\ ret.bert_val
    /\ "BERTFusion" \in NamesOf(model_names)
    /\ "EmbeddingNet" \notin NamesOf(model_names)

\* what one train_all step appended to the three lists
AppendedModels == SubSeq(trained_models', Len(trained_models) + 1, Len(trained_models'))

AppendedNames == SubSeq(model_names', Len(model_names) + 1, Len(model_names'))

AppendedAucs == SubSeq(individual_aucs', Len(individual_aucs) + 1, Len(individual_aucs'))

\* C7: every train_all call leaves the earlier entries of the three lists in
\* place and appends the tabular members in registry order, then
\* EmbeddingNet if trained, then BERTFusion if trained, and as many scores as
\* members, the k-th appended score being the validation score of the k-th
\* appended member.
C7_AppendedInRegistryOrder ==
    [][ (trains' # trains) =>
          LET n == Len(TABULAR_MODEL_BUILDERS)
          IN  /\ SubSeq(trained_models', 1, Len(trained_models)) = trained_models
              /\ SubSeq(model_names', 1, Len(model_names)) = model_names
              /\ SubSeq(individual_aucs', 1, Len(individual_aucs)) = individual_aucs
              /\ Len(AppendedNames) >= n
              /\ \A i \in 1 .. n :
                    /\ AppendedNames[i] = Replace(TABULAR_MODEL_BUILDERS[i], "build_")
                    /\ AppendedModels[i].arch = i
              /\ SubSeq(AppendedNames, n + 1, Len(AppendedNames)) \in
                    { <<>>, <<"EmbeddingNet">>, <<"BERTFusion">>,
                      <<"EmbeddingNet", "BERTFusion">> }
              /\ Len(AppendedModels) = Len(AppendedNames)
              /\ Len(AppendedAucs) = Len(AppendedNames)
              /\ \A k \in 1 .. Len(AppendedNames) :
                    /\ AppendedAucs[k] = ValAuc(AppendedModels[k])
                    /\ (AppendedNames[k] = "EmbeddingNet") <=>
                          (AppendedModels[k].arch = EMBEDDING_MODEL_BUILDER)
                    /\ (AppendedNames[k] = "BERTFusion") <=>
                          (AppendedModels[k].arch = BERT_FUSION_MODEL_BUILDER)
      ]_vars

\* C7 witness: a train_all that trained all 12 members onto a roster that
\* already held members
C7_Witness ==
    /\ ret.op = "train_all"
    /\ ~ret.fresh
    /\ Len(model_names) > Len(ALL_MODEL_NAMES)
    /\ model_names[Len(model_names)] = "BERTFusion"
    /\ model_names[Len(model_names) - 1] = "EmbeddingNet"

\* C8: the roster a train_all without both embedding matrices leaves on a
\* fresh predictor is the roster the same call with the embeddings produces,
\* less its last member, which is BERTFusion: same models, names and scores
\* in the same order.
C8_WithoutEmbeddingsDropsFusionOnly ==
    (ret.op = "train_all" /\ ret.fresh /\ ~(ret.bert_train /\ ret.bert_val)) =>
        LET full == TrainedMembers(seed, ret.pos, ret.X_train_raw, ret.X_val_raw,
                                   TRUE, TRUE)
        IN  /\ Len(full) = Len(model_names) + 1
            /\ full[Len(full)].name = "BERTFusion"
            /\ "BERTFusion" \notin NamesOf(model_names)
            /\ Len(trained_models) = Len(model_names)
            /\ Len(individual_aucs) = Len(model_names)
            /\ \A k \in 1 .. Len(model_names) :
                  /\ full[k].name = model_names[k]
                  /\ full[k].auc = individual_aucs[k]
                  /\ full[k].model = trained_models[k]

\* C8 witness: a train_all on a fresh predictor without embeddings that
\* trained EmbeddingNet, under a seed that gives the members different scores
C8_Witness ==
    /\ ret.op = "train_all"
    /\ ret.fresh
    /\ ~ret.bert_train
    /\ ~ret.bert_val
    /\ "EmbeddingNet" \in NamesOf(model_names)
    /\ ~AllEqual(individual_aucs)

\* C9: when save_all directly follows train_all and no artifact is removed,
\* a load_all on a fresh predictor leaves the saved roster: the same member
\* names in the same order, the same models and the same score vector.
C9_RoundTrip ==
    (/\ ret.op = "load_all"
     /\ ret.fresh
     /\ saved.after_train
     /\ removed = 0) =>
        /\ model_names = saved.names
        /\ trained_models = saved.models
        /\ individual_aucs = saved.aucs

\* C10: after load_all every position of the reloaded roster has a stored
\* score, and it is the validation AUC of the member at that position.
C10_ScoresAlignedAfterLoad ==
    (ret.op = "load_all") =>
        \A i \in 1 .. Len(model_names) :
            /\ i <= Len(individual_aucs)
            /\ individual_aucs[i] = ValAuc(trained_models[i])

\* C11: every load_all call raises nothing and leaves as roster the registry
\* members whose artifact is in the directory, once each, each holding the
\* model stored under its name: a member whose artifact is missing is left
\* out, and no member without an artifact appears.
C11_RosterFromPresentArtifacts ==
    [][ (ret'.op = "load_all" /\ disk_models' = disk_models) =>
          /\ ret'.status = "ok"
          /\ Len(trained_models') = Len(model_names')
          /\ \A i \in 1 .. Len(model_names') :
                /\ model_names'[i] \in DOMAIN disk_models
                /\ trained_models'[i] = disk_models[model_names'[i]]
                /\ \A j \in 1 .. Len(model_names') :
                      (model_names'[i] = model_names'[j]) => (i = j)
          /\ \A k \in 1 .. Len(ALL_MODEL_NAMES) :
                (ALL_MODEL_NAMES[k] \in DOMAIN disk_models) <=>
                    (ALL_MODEL_NAMES[k] \in NamesOf(model_names'))
      ]_vars

\* C11 witness: BERTFusion was saved, its artifact went missing, and a
\* load_all returned with EmbeddingNet in the roster and BERTFusion left out
C11_Witness ==
    /\ ret.op = "load_all"
    /\ ret.status = "ok"
    /\ removed > 0
    /\ "BERTFusion" \in NamesOf(saved.names)
    /\ "BERTFusion" \notin DOMAIN disk_models
    /\ "BERTFusion" \notin NamesOf(model_names)
    /\ "EmbeddingNet" \in NamesOf(model_names)

\* C12: in every state reached by train_all, save_all and load_all calls the
\* trained-model list, the name list and the stored score list have the same
\* length.
C12_OneScorePerMember ==
    /\ Len(trained_models) = Len(model_names)
    /\ Len(individual_aucs) = Len(model_names)

\* the predictions a call collected from the roster member at position i
FromMember(all_probs, i) ==
    SelectSeq(all_probs, LAMBDA e : e.pos = i)

\* C13: in every prediction call a tabular member is invoked once on the
\* scaled matrix, EmbeddingNet once on the raw-integer matrix when the call
\* supplies it and BERTFusion once on the embeddings when the call supplies
\* them, and a member whose input is absent is not invoked; in every
\* train_all call EmbeddingNet is trained only when both raw-integer
\* matrices are supplied and BERTFusion only when both embedding matrices
\* are supplied.
C13_NoSubstituteInputs ==
    [][ /\ IsPrediction(ret') =>
              \A i \in 1 .. Len(trained_models') :
                  LET got == FromMember(ret'.all_probs, i)
                      kind == InputKind(trained_models'[i].arch)
                      supplied == CASE kind = "embedding" -> ret'.X_raw
                                    [] kind = "fusion" -> ret'.bert_embeddings
                                    [] OTHER -> TRUE
                  IN  IF supplied
                      THEN /\ Len(got) = 1
                           /\ got[1].kind = kind
                           /\ got[1].model = trained_models'[i]
                      ELSE got = <<>>
        /\ (trains' # trains) =>
              \A k \in 1 .. Len(AppendedModels) :
                  /\ (AppendedModels[k].arch = EMBEDDING_MODEL_BUILDER) =>
                        (ret'.X_train_raw /\ ret'.X_val_raw)
                  /\ (AppendedModels[k].arch = BERT_FUSION_MODEL_BUILDER) =>
                        (ret'.bert_train /\ ret'.bert_val)
      ]_vars

\* C13 witness: a prediction call given the raw-integer matrix and no
\* embeddings on a roster holding EmbeddingNet and BERTFusion: EmbeddingNet
\* predicted from the raw-integer matrix and BERTFusion was not invoked
C13_Witness ==
    /\ ret.op = "predict_ensemble"
    /\ ret.X_raw
    /\ ~ret.bert_embeddings
    /\ "BERTFusion" \in NamesOf(model_names)
    /\ \E k \in 1 .. Len(ret.all_probs) : ret.all_probs[k].kind = "embedding"
    /\ \A k \in 1 .. Len(ret.all_probs) : ret.all_probs[k].name # "BERTFusion"

\* C14: an evaluate_auc call asked for the weighted score on a predictor with
\* stored scores returns 'ensemble_auc', 'weighted_ensemble_auc' and, for
\* every member of the roster, an entry '<name>_auc' computed from the
\* predictions of a member of that name.
C14_EntryPerMember ==
    (/\ ret.op = "evaluate_auc"
     /\ ret.status = "ok"
     /\ ret.weighted
     /\ individual_aucs # <<>>) =>
        /\ "ensemble_auc" \in DOMAIN ret.value
        /\ "weighted_ensemble_auc" \in DOMAIN ret.value
        /\ \A i \in 1 .. Len(model_names) :
              LET key == model_names[i] \o "_auc"
              IN  /\ key \in DOMAIN ret.value
                  /\ ret.value[key].name = model_names[i]

\* the index labels of the three frames of a split, one after the other
AllRows(split) == split.train \o split.val \o split.test

\* C15: the train, validation and test frames a split returns are pairwise
\* disjoint and together hold every record of the encoded frame exactly
\* once.
C15_PartitionsDisjointExhaustive ==
    (held.split.status = "ok") =>
        /\ Len(AllRows(held.split)) = Len(held.df_encoded)
        /\ \A i \in 1 .. Len(held.df_encoded) :
              \E k \in 1 .. Len(AllRows(held.split)) :
                  /\ AllRows(held.split)[k] = i
                  /\ \A j \in 1 .. Len(AllRows(held.split)) :
                        (AllRows(held.split)[j] = i) => (j = k)

\* C15 witness: a stratified_split that returned three frames of at least
\* three records each
C15_Witness ==
    /\ dret.op = "stratified_split"
    /\ held.split.status = "ok"
    /\ Len(held.split.train) >= 3
    /\ Len(held.split.val) >= 3
    /\ Len(held.split.test) >= 3

SameCall(a, b) ==
    /\ a.test_size = b.test_size
    /\ a.val_size = b.val_size
    /\ a.seed = b.seed

\* C16: a stratified_split call with the seed and fractions of the call
\* before it, on the same data, returns what that call returned: the same
\* records in the same order in each of the three frames.
C16_SameSeedSamePartitions ==
    (/\ held.split.status # "none"
     /\ prev_split.status # "none"
     /\ SameCall(held.split, prev_split)) =>
        /\ held.split.status = prev_split.status
        /\ held.split.train = prev_split.train
        /\ held.split.val = prev_split.val
        /\ held.split.test = prev_split.test

\* C16 witness: two successful calls with the same seed and fractions, the
\* rows of the train frame not in file order
C16_Witness ==
    /\ dret.op = "stratified_split"
    /\ held.split.status = "ok"
    /\ prev_split.status = "ok"
    /\ SameCall(held.split, prev_split)
    /\ \E k \in 1 .. (Len(held.split.train) - 1) :
          held.split.train[k] > held.split.train[k + 1]

\* |part - percent% of n| <= slack records, in hundredths of a record
Within(part, percent, n, slack) ==
    /\ 100 * part - percent * n <= 100 * slack
    /\ percent * n - 100 * part <= 100 * slack

DefaultFractions(c) ==
    /\ c.status = "ok"
    /\ c.test_size = DEFAULT_TEST_SIZE
    /\ c.val_size = DEFAULT_VAL_SIZE

\* C17 as stated: with fractions 0.15 and 0.15 the train, validation and
\* test sizes are 70%, 15% and 15% of the record count, each within 1
\* record.
C17_SizesWithinOne ==
    DefaultFractions(counted) =>
        /\ Within(counted.train, 70, counted.n, 1)
        /\ Within(counted.val, 15, counted.n, 1)
        /\ Within(counted.test, 15, counted.n, 1)

\* C17 amended: with fractions 0.15 and 0.15 the three sizes add up to the
\* record count, the validation and test sizes are within 1 record of 15%
\* of it and the train size is within 2 records of 70% of it and never
\* above; 1000 balanced records give 700/150/150.
C17_SizesWithinRounding ==
    DefaultFractions(counted) =>
        /\ counted.train + counted.val + counted.test = counted.n
        /\ Within(counted.val, 15, counted.n, 1)
        /\ Within(counted.test, 15, counted.n, 1)
        /\ Within(counted.train, 70, counted.n, 2)
        /\ 100 * counted.train <= 70 * counted.n
        /\ (counted.n = 1000) =>
              (counted.train = 700 /\ counted.val = 150 /\ counted.test = 150)

\* C17 witness: the split of 1000 balanced records
C17_Witness ==
    /\ DefaultFractions(counted)
    /\ counted.n = 1000
    /\ counted.train = 700
    /\ counted.val = 150
    /\ counted.test = 150

\* the mean of column c differs between two matrices
MeansDiffer(X, Y, c) ==
    ColumnStats(X, c).sum * ColumnStats(Y, c).n
        # ColumnStats(Y, c).sum * ColumnStats(X, c).n

\* C18: once the matrices are scaled, the scaler holds per column the count,
\* mean and variance of the train matrix alone, at every later moment too
\* (also after more transform calls), the train matrix is the features of
\* the train frame, and every cell of the scaled validation and test
\* matrices is the raw cell less the train mean over the train deviation.
C18_TrainStatisticsOnly ==
    (held.matrices.status = "ok") =>
        /\ scaler.fitted
        /\ \A c \in 1 .. NUM_FEATURES :
              LET col == SelectSeq([k \in 1 .. Len(held.matrices.X_train_raw) |->
                                       held.matrices.X_train_raw[k][c]],
                                   LAMBDA v : v # NaN)
              IN  /\ scaler.stats[c].n = Len(col)
                  /\ scaler.stats[c].sum = SumSeq(col)
                  /\ scaler.stats[c].sumsq = SumSeq([k \in 1 .. Len(col) |-> col[k] * col[k]])
        /\ (dret.op \in {"scale_features", "prepare_all"} /\ dret.status = "ok") =>
              held.matrices.X_train_raw = FeaturesOf(held.df_encoded, held.split.train)
        /\ \A part \in {"X_val", "X_test"} :
              LET raw == held.matrices[part \o "_raw"]
                  out == held.matrices[part]
              IN  /\ Len(out) = Len(raw)
                  /\ \A k \in 1 .. Len(raw) : \A c \in 1 .. NUM_FEATURES :
                        LET st == ColumnStats(held.matrices.X_train_raw, c)
                            spread == st.n * st.sumsq - st.sum * st.sum
                        IN  IF raw[k][c] = NaN \/ st.n = 0
                            THEN out[k][c].num = NaN
                            ELSE /\ out[k][c].num = st.n * raw[k][c] - st.sum
                                 /\ out[k][c].den2 =
                                       (IF spread = 0 THEN st.n * st.n ELSE spread)

\* C18 witness: the validation matrix was transformed once more after
\* scale_features, and a column's mean differs between the train and the
\* validation matrix
C18_Witness ==
    /\ dret.op = "transform"
    /\ held.matrices.status = "ok"
    /\ \E c \in 1 .. NUM_FEATURES :
          MeansDiffer(held.matrices.X_train_raw, held.matrices.X_val_raw, c)

\* C19: transform applied again to the validation or test matrix returns the
\* matrix its first application in scale_features returned.
C19_TransformAgainSame ==
    (dret.op = "transform") => (dret.out = held.matrices[dret.part])

\* C19 witness: the validation matrix transformed again, a cell of the
\* result away from the column mean
C19_Witness ==
    /\ dret.op = "transform"
    /\ dret.part = "X_val"
    /\ \E k \in 1 .. Len(dret.out) : \E c \in 1 .. NUM_FEATURES :
          dret.out[k][c].num \notin {0, NaN}

CodesOf(mapping) == {mapping[name] : name \in DOMAIN mapping}

\* C20: in the encoded frame every cell whose string the encoding table of
\* its column holds is that string's code (BirthWeight 'WeightTooLow' is 3,
\* CardiacArrestChance 'Low' is 0), and every other cell, feature or target,
\* is the missing value, which is no code of any table.
C20_EncodedOrMissing ==
    (held.df_encoded # <<>>) =>
        /\ Len(held.df_encoded) = Len(csv)
        /\ \A i \in 1 .. Len(csv) : \A col \in Columns :
              LET raw == csv[i][col]
                  cell == held.df_encoded[i][col]
                  table == IF col = TARGET_COLUMN THEN TARGET_MAP ELSE CATEGORY_MAPS[col]
              IN  /\ (raw \in DOMAIN table) => (cell = table[raw])
                  /\ (raw \notin DOMAIN table) =>
                        (cell = NaN /\ cell \notin CodesOf(table))
                  /\ (col = "BirthWeight" /\ raw = "WeightTooLow") => (cell = 3)
                  /\ (col = TARGET_COLUMN /\ raw = "Low") => (cell = 0)

\* C20 witness: an encoded file holding BirthWeight 'WeightTooLow', the
\* unknown BirthWeight 'weighttoolow' and the target 'Low'
C20_Witness ==
    /\ dret.op = "load_and_encode"
    /\ \E i \in 1 .. Len(csv) : csv[i]["BirthWeight"] = "WeightTooLow"
    /\ \E i \in 1 .. Len(csv) :
          /\ csv[i]["BirthWeight"] = "weighttoolow"
          /\ held.df_encoded[i]["BirthWeight"] = NaN
    /\ \E i \in 1 .. Len(csv) :
          /\ csv[i][TARGET_COLUMN] = "Low"
          /\ held.df_encoded[i][TARGET_COLUMN] = 0

\* the calls that read the roster
Readers == {"predict_ensemble", "predict_weighted_ensemble", "evaluate_auc", "save_all"}

\* C27: a predict_ensemble, predict_weighted_ensemble, evaluate_auc or
\* save_all call leaves trained_models, model_names and individual_aucs as
\* they were; a step that changes one of them is a train_all or a load_all
\* call, or the construction of a new predictor.
C27_ReadersLeaveRoster ==
    [][ /\ (ret'.op \in Readers) =>
              /\ trained_models' = trained_models
              /\ model_names' = model_names
              /\ individual_aucs' = individual_aucs
        /\ (<<trained_models, model_names, individual_aucs>>'
                # <<trained_models, model_names, individual_aucs>>) =>
              (ret'.op \in {"train_all", "load_all", "init"})
      ]_vars

\* C27 witness: a weighted prediction that used fewer members than the
\* predictor holds scores, after the roster was saved
C27_Witness ==
    /\ ret.op = "predict_weighted_ensemble"
    /\ ret.all_probs # <<>>
    /\ Len(ret.all_probs) < Len(individual_aucs)
    /\ saved.names = model_names
    /\ model_names # <<>>

\* C29: after train_all calls on one predictor no member name occurs twice
\* in the roster and the roster holds at most the 12 registry members.
C29_TrainedOnce ==
    /\ \A i, j \in 1 .. Len(model_names) :
          (i # j) => (model_names[i] # model_names[j])
    /\ Len(model_names) <= Len(ALL_MODEL_NAMES)
    /\ Len(trained_models) <= Len(ALL_MODEL_NAMES)

\* C30: every member a prediction call invokes is handed the input kind its
\* architecture was built for and trained with in train_all (the scaled
\* matrix for a tabular member, the per-feature raw-integer columns for
\* EmbeddingNet, the two named inputs for BERTFusion), on a roster built by
\* train_all and on a roster rebuilt by load_all alike.
C30_RoutedAsTrained ==
    IsPrediction(ret) =>
        \A k \in 1 .. Len(ret.all_probs) :
            LET e == ret.all_probs[k]
            IN  /\ e.pos \in 1 .. Len(trained_models)
                /\ e.model = trained_models[e.pos]
                /\ e.kind = InputKind(e.model.arch)
                /\ e.kind \in {"tabular", "embedding", "fusion"}

\* C30 witness: a prediction on a roster rebuilt by load_all (a roster
\* without tabular members) in which EmbeddingNet and BERTFusion were both
\* invoked
C30_Witness ==
    /\ ret.op = "predict_ensemble"
    /\ model_names = << "EmbeddingNet", "BERTFusion" >>
    /\ Len(ret.all_probs) = 2
    /\ ret.all_probs[1].kind = "embedding"
    /\ ret.all_probs[2].kind = "fusion"

\* C22: a fit goes on while the epoch limit is not reached and the
\* validation loss was lowered within the last 20 epochs, it ends at the
\* first epoch at which the limit is reached or the loss has not been
\* lowered for 20 epochs, and the model it leaves (the one train_all scores
\* and appends) holds the weights of an epoch of the lowest validation loss.
C22_StopsAndKeepsBest ==
    /\ (fit.status = "fitting") =>
          (fit.epoch < fit.epochs /\ fit.flat < EARLY_STOPPING_PATIENCE)
    /\ (fit.status = "ended") =>
          /\ (fit.epoch = fit.epochs \/ fit.flat = EARLY_STOPPING_PATIENCE)
          /\ (fit.min_loss # Inf) => (fit.model.weights.val_loss = fit.min_loss)

\* the first half of C22 on its own
StopsAtPatienceOrLimit ==
    /\ (fit.status = "fitting") =>
          (fit.epoch < fit.epochs /\ fit.flat < EARLY_STOPPING_PATIENCE)
    /\ (fit.status = "ended") =>
          (fit.epoch = fit.epochs \/ fit.flat = EARLY_STOPPING_PATIENCE)

\* the second half of C22 for the fits that EarlyStopping stopped
StoppedEarlyKeepsBest ==
    (fit.status = "ended" /\ fit.model.stop_training /\ fit.min_loss # Inf) =>
        (fit.model.weights.val_loss = fit.min_loss)

UnmappedCells(df_raw) ==
    {<<i, col>> \in (1 .. Len(df_raw)) \X Columns :
        df_raw[i][col] \notin DOMAIN MappingOf(col)}

\* C21: a run whose input file has an unmapped category value, in a feature
\* or in the target, starts no fit of an ensemble member, and no fit is ever
\* started on a training or validation matrix with a missing cell.
C21_UnmappedAbortsBeforeTraining ==
    /\ (UnmappedCells(csv) # {}) => (run.fits = 0)
    /\ (run.fits > 0) =>
          /\ ~HasNaN(held.matrices.X_train_raw)
          /\ ~HasNaN(held.matrices.X_val_raw)

\* the part of C21 about the target: an unmapped target value ends the run
\* at the first split of prepare_all
UnmappedTargetAborts ==
    (\E cell \in UnmappedCells(csv) : cell[2] = TARGET_COLUMN) =>
        /\ run.pc = "start"
        /\ dret.op = "prepare_all" => dret.status = "ValueError"

\* the calls that read the roster of a trained ensemble
RosterReaders == {"save_all", "evaluate_auc", "predict_ensemble",
                  "predict_weighted_ensemble"}

MainOrder ==
    {<<"start", "bert_done">>, <<"start", "done">>, <<"bert_done", "training">>,
     <<"training", "trained">>, <<"training", "aborted">>}

\* C23: a run goes from untrained to training to trained and only then to
\* saving and evaluating: whenever save_all, evaluate_auc or a prediction
\* has been called, train_all has returned before, no fit is going on and
\* every member of the call is fitted, scored and appended.
C23_ReadersAfterTraining ==
    (ret.op \in RosterReaders) =>
        /\ run.pc = "trained"
        /\ run.in_fit = {}
        /\ run.fits = Len(Plan)
        /\ Len(trained_models) = Len(Plan)

\* the order of the stages of a run
RunInOrder ==
    [][(run'.pc # run.pc) => (<<run.pc, run'.pc>> \in MainOrder)]_run

\* C23 witness: the weighted prediction of a run that trained and saved all
\* twelve members
C23_Witness ==
    /\ run.pc = "trained"
    /\ ret.op = "predict_weighted_ensemble"
    /\ saved.after_train
    /\ Len(saved.names) = Len(ALL_MODEL_NAMES)
    /\ run.fits = Len(ALL_MODEL_NAMES)

\* C24: at most one member is in fit at any moment, and while member k is
\* built or in fit the k-1 members before it are fitted, scored and
\* appended and no other member is in fit.
C24_OneMemberAtATime ==
    /\ Cardinality(run.in_fit) <= 1
    /\ (run.pc = "training" /\ run.phase \in {"built", "fitting", "fitted"}) =>
          /\ Len(trained_models) = run.member - 1
          /\ Len(individual_aucs) = run.member - 1
          /\ run.in_fit \subseteq {run.member}

\* C24 witness: the last of twelve members in fit, the eleven before it
\* appended
C24_Witness ==
    /\ run.pc = "training"
    /\ run.in_fit = {Len(ALL_MODEL_NAMES)}
    /\ Len(trained_models) = Len(ALL_MODEL_NAMES) - 1

\* row k of partition part of the prepared data and of the embeddings comes
\* from the record of the input file at index[k]
RowsOfRecord(part, index, M, bert) ==
    /\ Len(M["X_" \o part \o "_raw"]) = Len(index)
    /\ Len(M["X_" \o part]) = Len(index)
    /\ Len(M["y_" \o part]) = Len(index)
    /\ \A k \in 1 .. Len(index) :
          /\ M["X_" \o part \o "_raw"][k] =
                [c \in 1 .. NUM_FEATURES |->
                    MapCell(MappingOf(FEATURE_COLUMNS[c]),
                            csv[index[k]][FEATURE_COLUMNS[c]])]
          /\ M["y_" \o part][k] = MapCell(TARGET_MAP, csv[index[k]][TARGET_COLUMN])
          /\ M["X_" \o part][k] =
                scaler_transform(scaler, << M["X_" \o part \o "_raw"][k] >>).out[1]
    /\ (bert.origin = "extracted") =>
          /\ Len(bert[part]) = Len(index)
          /\ \A k \in 1 .. Len(index) :
                bert[part][k] = [cls |-> row_to_clinical_text(csv[index[k]])]

\* C28: in each partition, row k of the scaled matrix, row k of the raw
\* matrix, label k and row k of the extracted embeddings all come from one
\* and the same record of the input file.
C28_RowsAligned ==
    (dret.op = "prepare_all" /\ dret.status = "ok") =>
        \A part \in {"train", "val", "test"} :
            RowsOfRecord(part, held.split[part], held.matrices, run.bert)

\* C28 witness: embeddings extracted for a training partition that is not
\* in file order and whose records differ in text and in label
C28_Witness ==
    /\ dret.op = "prepare_all"
    /\ dret.status = "ok"
    /\ run.bert.origin = "extracted"
    /\ \E k \in 1 .. Len(held.split.train) : held.split.train[k] # k
    /\ \E j, k \in 1 .. Len(held.split.train) :
          /\ run.bert.train[j] # run.bert.train[k]
          /\ held.matrices.y_train[j] # held.matrices.y_train[k]

\* C25: with either backend no trial is built while another trial runs,
\* and no trial is built while a trial that ended before it, by completion,
\* by pruning or a scheduler stop, or by an error, has left its session
\* state uncleared.
C25_TrialsInTurnAndCleared ==
    /\ Cardinality(Running(hpo.trials)) <= 1
    /\ \A i \in 1 .. Len(hpo.trials) :
          /\ hpo.trials[i].beside = {}
          /\ hpo.trials[i].over = {}

\* the part of C25 that holds: Optuna's trials do not overlap, a trial that
\* completes has cleared the session, and no trial follows an error
OptunaInTurn ==
    (hpo.backend = "optuna") =>
        /\ Cardinality(Running(hpo.trials)) <= 1
        /\ \A i \in 1 .. Len(hpo.trials) :
              /\ hpo.trials[i].beside = {}
              /\ \A j \in hpo.trials[i].over : hpo.trials[j].state = "pruned"
              /\ (hpo.trials[i].state = "complete") => hpo.trials[i].cleared

\* a pruned Optuna trial followed by a trial built over its session state
OptunaBuiltOverPruned ==
    /\ hpo.backend = "optuna"
    /\ \E i \in 1 .. Len(hpo.trials) : hpo.trials[i].over # {}

\* two trials of Ray Tune running at a time
RayOverlap ==
    /\ hpo.backend = "ray"
    /\ Cardinality(Running(hpo.trials)) > 1

====
